---- MODULE Spec2Model ----
(***************************************************************************)
(* A model of the dataset-ingestion and configuration-validation core of   *)
(* ModelTrainer (src/ml_utils.py) and of the configuration it reads        *)
(* (src/config.py, src/app.py).                                            *)
(*                                                                         *)
(* Python values are tagged records.  Python strings are sequences of      *)
(* one-character strings, so that str.upper, str.endswith, os.path.splitext*)
(* int() and float() are computed the way Python computes them.  Floats    *)
(* are fixed-point hundredths plus the IEEE specials inf, -inf and nan.    *)
(***************************************************************************)
EXTENDS Integers, Sequences, FiniteSets, TLC

VARIABLES
    parameters,        \* validate_training_config: the parameter mapping
    supported_models,  \* app.config['SUPPORTED_MODELS'] (None: key not set)
    vpc,               \* validate_training_config: "call" or "done"
    vresult,           \* validate_training_config: its outcome
    fs,                \* the entries of UPLOAD_FOLDER: saved uploads and working directories
    calls,             \* the process_dataset invocations: arguments, position, locals, outcome
    reqs,              \* the requests to upload_dataset, configure_training and create_job
    db                 \* the committed Dataset and TrainingJob records

vvars == <<parameters, supported_models, vpc, vresult>>

dvars == <<fs, calls>>

rvars == <<reqs, db>>

vars == <<vvars, dvars, rvars>>

-----------------------------------------------------------------------------
(* Python values *)

Absent == [t |-> "absent"]
PyNone == [t |-> "none"]
PyBool(b) == [t |-> "bool", v |-> b]
PyInt(n) == [t |-> "int", v |-> n]
PyFloat(h) == [t |-> "float", k |-> "fin", v |-> h]
PyInf == [t |-> "float", k |-> "inf", v |-> 0]
PyNaN == [t |-> "float", k |-> "nan", v |-> 0]
PyStr(s) == [t |-> "str", v |-> s]
PyList(items) == [t |-> "list", v |-> items]
PyDict(pairs) == [t |-> "dict", v |-> pairs]

\* bool(v): Python truthiness, as used by `not model_type`
Truthy(x) ==
    CASE x.t = "absent" -> FALSE
      [] x.t = "none" -> FALSE
      [] x.t = "bool" -> x.v
      [] x.t = "int" -> x.v # 0
      [] x.t = "float" -> ~(x.k = "fin" /\ x.v = 0)
      [] x.t = "str" -> Len(x.v) > 0
      [] x.t = "list" -> Len(x.v) > 0
      [] x.t = "dict" -> Len(x.v) > 0

\* dict.get(key, default) on a mapping whose missing keys hold Absent
Get(d, key, default) == IF d[key] = Absent THEN default ELSE d[key]

Digits == <<"0", "1", "2", "3", "4", "5", "6", "7", "8", "9">>

IsDigit(c) == \E i \in 1..10 : Digits[i] = c

DigitVal(c) == (CHOOSE i \in 1..10 : Digits[i] = c) - 1

RECURSIVE LStrip(_)
LStrip(s) == IF Len(s) > 0 /\ Head(s) = " " THEN LStrip(Tail(s)) ELSE s

RECURSIVE RStrip(_)
RStrip(s) ==
    IF Len(s) > 0 /\ s[Len(s)] = " " THEN RStrip(SubSeq(s, 1, Len(s) - 1)) ELSE s

Strip(s) == RStrip(LStrip(s))

AllDigits(s) == Len(s) > 0 /\ \A i \in 1..Len(s) : IsDigit(s[i])

RECURSIVE DecVal(_)
DecVal(s) == IF Len(s) = 0 THEN 0 ELSE 10 * DecVal(SubSeq(s, 1, Len(s) - 1)) + DigitVal(s[Len(s)])

IsSign(c) == c = "-" \/ c = "+"

Unsigned(s) == IF Len(s) > 0 /\ IsSign(Head(s)) THEN Tail(s) ELSE s

Negative(s) == Len(s) > 0 /\ Head(s) = "-"

\* int(str): surrounding blanks, an optional sign, decimal digits
ParseInt(s) ==
    LET u == Unsigned(Strip(s)) IN
    IF AllDigits(u)
    THEN [ok |-> "ok", n |-> IF Negative(Strip(s)) THEN 0 - DecVal(u) ELSE DecVal(u)]
    ELSE [ok |-> "ValueError", n |-> 0]

DotAt(s) == IF \E i \in 1..Len(s) : s[i] = "." THEN CHOOSE i \in 1..Len(s) : s[i] = "." ELSE 0

\* the value, in hundredths, of digits [. digits] with at most two decimals
Hundredths(u) ==
    LET d == DotAt(u)
        ip == IF d = 0 THEN u ELSE SubSeq(u, 1, d - 1)
        fp == IF d = 0 THEN <<>> ELSE SubSeq(u, d + 1, Len(u))
    IN 100 * DecVal(ip) + (IF Len(fp) = 0 THEN 0 ELSE IF Len(fp) = 1 THEN 10 * DecVal(fp) ELSE DecVal(fp))

IsDecimal(u) ==
    LET d == DotAt(u)
        ip == IF d = 0 THEN u ELSE SubSeq(u, 1, d - 1)
        fp == IF d = 0 THEN <<>> ELSE SubSeq(u, d + 1, Len(u))
    IN /\ Len(ip) + Len(fp) > 0
       /\ Len(fp) <= 2
       /\ \A i \in 1..Len(ip) : IsDigit(ip[i])
       /\ \A i \in 1..Len(fp) : IsDigit(fp[i])

\* float(str): surrounding blanks, an optional sign, then nan, inf or a decimal
ParseFloat(s) ==
    LET t == Strip(s)
        u == Unsigned(t)
        neg == Negative(t)
    IN CASE u = <<"n", "a", "n">> -> [ok |-> "ok", k |-> "nan", h |-> 0]
         [] u = <<"i", "n", "f">> -> [ok |-> "ok", k |-> IF neg THEN "ninf" ELSE "inf", h |-> 0]
         [] IsDecimal(u) -> [ok |-> "ok", k |-> "fin", h |-> IF neg THEN 0 - Hundredths(u) ELSE Hundredths(u)]
         [] OTHER -> [ok |-> "ValueError", k |-> "fin", h |-> 0]

\* truncation toward zero of a value given in hundredths
Trunc(h) == IF h >= 0 THEN h \div 100 ELSE 0 - ((0 - h) \div 100)

\* int(x)
IntOf(x) ==
    CASE x.t = "bool" -> [ok |-> "ok", n |-> IF x.v THEN 1 ELSE 0]
      [] x.t = "int" -> [ok |-> "ok", n |-> x.v]
      [] x.t = "float" ->
            CASE x.k = "fin" -> [ok |-> "ok", n |-> Trunc(x.v)]
              [] x.k = "nan" -> [ok |-> "ValueError", n |-> 0]
              [] OTHER -> [ok |-> "OverflowError", n |-> 0]
      [] x.t = "str" -> ParseInt(x.v)
      [] OTHER -> [ok |-> "TypeError", n |-> 0]

\* float(x)
FloatOf(x) ==
    CASE x.t = "bool" -> [ok |-> "ok", k |-> "fin", h |-> IF x.v THEN 100 ELSE 0]
      [] x.t = "int" -> [ok |-> "ok", k |-> "fin", h |-> 100 * x.v]
      [] x.t = "float" -> [ok |-> "ok", k |-> x.k, h |-> x.v]
      [] x.t = "str" -> ParseFloat(x.v)
      [] OTHER -> [ok |-> "TypeError", k |-> "fin", h |-> 0]

\* f <= n and f >= n on floats (n an integer); every comparison with nan is false
FloatLe(f, n) == f.k = "ninf" \/ (f.k = "fin" /\ f.h <= 100 * n)

FloatGe(f, n) == f.k = "inf" \/ (f.k = "fin" /\ f.h >= 100 * n)

-----------------------------------------------------------------------------
(* String literals of the program and of the inputs, as character sequences *)

S_yolo == <<"y", "o", "l", "o">>

S_rf_detr == <<"r", "f", "-", "d", "e", "t", "r">>

S_detr == <<"d", "e", "t", "r">>

S_yolov8n == <<"y", "o", "l", "o", "v", "8", "n">>

S_rf_detr_r50 == <<"r", "f", "_", "d", "e", "t", "r", "_", "r", "5", "0">>

S_bogus == <<"b", "o", "g", "u", "s">>

S_abc == <<"a", "b", "c">>

S_0_2 == <<"0", ".", "2">>

S_nan == <<"n", "a", "n">>

S_1_5 == <<"1", ".", "5">>

S_sp10 == <<" ", "1", "0", " ">>

-----------------------------------------------------------------------------
(* src/config.py, src/app.py: the supported-model catalog *)

\* Config.SUPPORTED_MODELS
SUPPORTED_MODELS ==
    (S_yolo :> <<<<"y", "o", "l", "o", "v", "5", "s">>, <<"y", "o", "l", "o", "v", "5", "m">>, <<"y", "o", "l", "o", "v", "5", "l">>, <<"y", "o", "l", "o", "v", "5", "x">>, S_yolov8n, <<"y", "o", "l", "o", "v", "8", "s">>, <<"y", "o", "l", "o", "v", "8", "m">>, <<"y", "o", "l", "o", "v", "8", "l">>, <<"y", "o", "l", "o", "v", "8", "x">>>>)
    @@ (S_rf_detr :> <<S_rf_detr_r50, <<"r", "f", "_", "d", "e", "t", "r", "_", "r", "1", "0", "1">>>>)

\* {}: the default of app.config.get('SUPPORTED_MODELS', {})
EmptyDict == [k \in {} |-> <<>>]

\* app.config.get('SUPPORTED_MODELS', {})
ConfigGetSupportedModels(cfg) == IF cfg.has THEN cfg.models ELSE EmptyDict

\* x in list
InList(x, list) == \E i \in 1..Len(list) : list[i] = x

-----------------------------------------------------------------------------
(* src/ml_utils.py: validate_training_config *)

RetNone == [out |-> "None", msg |-> "", args |-> <<>>]

RetError(m, a) == [out |-> "error", msg |-> m, args |-> a]

Raise(exc) == [out |-> "raise", msg |-> exc, args |-> <<>>]

\* mutant of ExceptNumeric: except ValueError only
ExceptNumeric_ValueErrorOnly(exc) ==
    IF exc = "ValueError"
    THEN [out |-> "error", msg |-> "Invalid numeric parameter values", args |-> <<>>]
    ELSE [out |-> "raise", msg |-> exc, args |-> <<>>]

\* except (ValueError, TypeError): return "Invalid numeric parameter values"
ExceptNumeric(exc) ==
    IF exc \in {"ValueError", "TypeError"}
    THEN RetError("Invalid numeric parameter values", <<>>)
    ELSE Raise(exc)

\* model_type in ['yolo', 'rf-detr']
ModelTypeEnumerated(model_type) ==
    model_type.t = "str" /\ InList(model_type.v, <<S_yolo, S_rf_detr>>)

\* mutant of VariantRejected: the variant is looked up in the lists of all types
VariantRejected_AnyList(model_type, model_variant, supported) ==
    /\ model_type.v \in DOMAIN supported
    /\ ~(model_variant.t = "str"
         /\ \E k \in DOMAIN supported : \E i \in 1..Len(supported[k]) : supported[k][i] = model_variant.v)

\* model_type in supported_models and model_variant not in supported_models[model_type]
VariantRejected(model_type, model_variant, supported) ==
    /\ model_type.v \in DOMAIN supported
    /\ ~(model_variant.t = "str" /\ InList(model_variant.v, supported[model_type.v]))

\* the try block: epochs, batch_size, learning_rate, validation_split in turn
ValidateNumeric(p) ==
    LET epochs == IntOf(Get(p, "epochs", PyInt(0)))
        batch_size == IntOf(Get(p, "batch_size", PyInt(0)))
        learning_rate == FloatOf(Get(p, "learning_rate", PyInt(0)))
        validation_split == FloatOf(Get(p, "validation_split", PyInt(0)))
    IN IF epochs.ok # "ok" THEN ExceptNumeric(epochs.ok)
       ELSE IF epochs.n <= 0 THEN RetError("Epochs must be a positive integer", <<>>)
       ELSE IF batch_size.ok # "ok" THEN ExceptNumeric(batch_size.ok)
       ELSE IF batch_size.n <= 0 THEN RetError("Batch size must be a positive integer", <<>>)
       ELSE IF learning_rate.ok # "ok" THEN ExceptNumeric(learning_rate.ok)
       ELSE IF FloatLe(learning_rate, 0) THEN RetError("Learning rate must be a positive number", <<>>)
       ELSE IF validation_split.ok # "ok" THEN ExceptNumeric(validation_split.ok)
       ELSE IF FloatLe(validation_split, 0) \/ FloatGe(validation_split, 1)
            THEN RetError("Validation split must be between 0 and 1", <<>>)
       ELSE RetNone

validate_training_config(p, cfg) ==
    LET model_type == Get(p, "model_type", PyNone)
        model_variant == Get(p, "model_variant", PyNone)
        supported == ConfigGetSupportedModels(cfg)
    IN IF ~Truthy(model_type) THEN RetError("Model type is required", <<>>)
       ELSE IF ~ModelTypeEnumerated(model_type) THEN RetError("Unsupported model type", <<model_type>>)
       ELSE IF ~Truthy(model_variant) THEN RetError("Model variant is required", <<>>)
       ELSE IF VariantRejected(model_type, model_variant, supported)
            THEN RetError("Unsupported model variant", <<model_variant, model_type>>)
       ELSE ValidateNumeric(p)

-----------------------------------------------------------------------------
(* String literals of src/ml_utils.py (dataset side) and Python string methods *)

S_annotations == <<"a", "n", "n", "o", "t", "a", "t", "i", "o", "n", "s">>

S_Annotations == <<"A", "n", "n", "o", "t", "a", "t", "i", "o", "n", "s">>

S_data_yaml == <<"d", "a", "t", "a", ".", "y", "a", "m", "l">>

S_train == <<"t", "r", "a", "i", "n">>

S_val == <<"v", "a", "l">>

S_test == <<"t", "e", "s", "t">>

S_images == <<"i", "m", "a", "g", "e", "s">>

S_COCO == <<"C", "O", "C", "O">>

S_YOLO == <<"Y", "O", "L", "O">>

S_PASCAL_VOC == <<"P", "A", "S", "C", "A", "L", " ", "V", "O", "C">>

S_name == <<"n", "a", "m", "e">>

S_names == <<"n", "a", "m", "e", "s">>

S_categories == <<"c", "a", "t", "e", "g", "o", "r", "i", "e", "s">>

LowerCase == <<"a", "b", "c", "d", "e", "f", "g", "h", "i", "j", "k", "l", "m", "n", "o", "p", "q", "r", "s", "t", "u", "v", "w", "x", "y", "z">>

UpperCase == <<"A", "B", "C", "D", "E", "F", "G", "H", "I", "J", "K", "L", "M", "N", "O", "P", "Q", "R", "S", "T", "U", "V", "W", "X", "Y", "Z">>

UpperChar(c) ==
    IF \E i \in 1..26 : LowerCase[i] = c
    THEN UpperCase[CHOOSE i \in 1..26 : LowerCase[i] = c]
    ELSE c

\* str.upper()
Upper(s) == [i \in 1..Len(s) |-> UpperChar(s[i])]

\* str.endswith(suffix)
EndsWith(s, suffix) ==
    Len(s) >= Len(suffix) /\ SubSeq(s, Len(s) - Len(suffix) + 1, Len(s)) = suffix

LastDot(s) == IF \E i \in 1..Len(s) : s[i] = "." THEN CHOOSE i \in 1..Len(s) : s[i] = "." /\ \A j \in (i + 1)..Len(s) : s[j] # "." ELSE 0

\* os.path.splitext(name)[0]: the last extension is cut unless only dots precede it
SplitExtRoot(name) ==
    LET d == LastDot(name) IN
    IF d > 0 /\ \E i \in 1..(d - 1) : name[i] # "." THEN SubSeq(name, 1, d - 1) ELSE name

\* len(x)
PyLen(x) ==
    IF x.t \in {"list", "dict", "str"} THEN [ok |-> "ok", n |-> Len(x.v)] ELSE [ok |-> "TypeError", n |-> 0]

\* key in d, d a dict given as its sequence of <<key, value>> pairs
DictHas(d, key) == \E i \in 1..Len(d.v) : d.v[i][1] = key

\* d.get(key, default)
DictGet(d, key, default) ==
    IF DictHas(d, key) THEN d.v[CHOOSE i \in 1..Len(d.v) : d.v[i][1] = key][2] ELSE default

-----------------------------------------------------------------------------
(* The file system below UPLOAD_FOLDER.  A directory is the sequence, in    *)
(* listing order, of its entries [path, doc]; a path is a sequence of names.*)

DirDoc == [kind |-> "dir"]

BinDoc == [kind |-> "bin"]

IsPrefix(p, q) == Len(p) <= Len(q) /\ SubSeq(q, 1, Len(p)) = p

\* os.path.isdir(os.path.join(dataset_dir, *path))
IsDir(entries, path) ==
    \/ path = <<>>
    \/ \E i \in 1..Len(entries) :
          \/ entries[i].path = path /\ entries[i].doc.kind = "dir"
          \/ Len(entries[i].path) > Len(path) /\ IsPrefix(path, entries[i].path)

\* os.path.exists(os.path.join(dataset_dir, *path))
Exists(entries, path) == IsDir(entries, path) \/ \E i \in 1..Len(entries) : entries[i].path = path

\* os.listdir(os.path.join(dataset_dir, *dir)), in listing order: the names
\* directly below dir, each at the place of its first entry
ListDir(entries, dir) ==
    LET Below(i) == Len(entries[i].path) > Len(dir) /\ IsPrefix(dir, entries[i].path)
        Name(i) == entries[i].path[Len(dir) + 1]
        First(i) == Below(i) /\ \A j \in 1..(i - 1) : Below(j) => Name(j) # Name(i)
        firsts == SelectSeq([i \in 1..Len(entries) |-> i], First)
    IN [k \in 1..Len(firsts) |-> Name(firsts[k])]

\* the content open() reads at a path
FileDoc(entries, path) ==
    IF \E i \in 1..Len(entries) : entries[i].path = path
    THEN entries[CHOOSE i \in 1..Len(entries) : entries[i].path = path].doc
    ELSE DirDoc

\* the entry cannot be written: a regular file is where a directory is needed,
\* or a directory is where a regular file is to be written (open() and mkdir()
\* raise IsADirectoryError, NotADirectoryError or FileExistsError)
WriteConflict(entries, e) ==
    \E i \in 1..Len(entries) :
        \/ Len(entries[i].path) < Len(e.path) /\ IsPrefix(entries[i].path, e.path) /\ entries[i].doc.kind # "dir"
        \/ entries[i].path = e.path /\ (entries[i].doc.kind = "dir") # (e.doc.kind = "dir")
        \/ Len(entries[i].path) > Len(e.path) /\ IsPrefix(e.path, entries[i].path) /\ e.doc.kind # "dir"

\* mutant of WriteEntry: the directory is emptied before the entry is written
WriteEntry_Emptied(entries, e) == <<e>>

\* a file written at its path: replaced in place, or added at the end of the listing
WriteEntry(entries, e) ==
    IF \E i \in 1..Len(entries) : entries[i].path = e.path
    THEN [i \in 1..Len(entries) |-> IF entries[i].path = e.path THEN e ELSE entries[i]]
    ELSE Append(entries, e)

-----------------------------------------------------------------------------
(* src/ml_utils.py: the three parsers.  Each gives the set of its possible  *)
(* outcomes on a working directory.                                         *)

Summary(nc, ni, cn) == [out |-> "return", exc |-> "", msg |-> "", num_classes |-> nc, num_images |-> ni, class_names |-> cn, num_annotations |-> -1, arg |-> <<>>]

CocoSummary(nc, ni, na, cn) == [out |-> "return", exc |-> "", msg |-> "", num_classes |-> nc, num_images |-> ni, class_names |-> cn, num_annotations |-> na, arg |-> <<>>]

Raised(exc, msg) == [out |-> "raise", exc |-> exc, msg |-> msg, num_classes |-> 0, num_images |-> 0, class_names |-> PyNone, num_annotations |-> -1, arg |-> <<>>]

IsDotJson(f) == EndsWith(f, <<".", "j", "s", "o", "n">>)

\* mutant of CocoAnnotationFiles: the annotations subdirectory is looked at first
CocoAnnotationFiles_SubFirst(d) ==
    LET top == SelectSeq(ListDir(d, <<>>), IsDotJson)
        sub == SelectSeq(ListDir(d, <<S_annotations>>), IsDotJson)
    IN IF sub # <<>> THEN [i \in 1..Len(sub) |-> <<S_annotations, sub[i]>>]
       ELSE [i \in 1..Len(top) |-> <<top[i]>>]

\* lines 63-69: the candidate annotation files, as paths below dataset_dir
CocoAnnotationFiles(d) ==
    LET top == SelectSeq(ListDir(d, <<>>), IsDotJson)
        sub == SelectSeq(ListDir(d, <<S_annotations>>), IsDotJson)
    IN IF top # <<>> THEN [i \in 1..Len(top) |-> <<top[i]>>]
       ELSE IF IsDir(d, <<S_annotations>>) THEN [i \in 1..Len(sub) |-> <<S_annotations, sub[i]>>]
       ELSE <<>>

\* mutant of CatNameError: a category without name is read as cat.get('name')
CatNameError_Lenient(cat) == IF cat.t # "dict" THEN "TypeError" ELSE "ok"

\* cat['name'] raises for this category
CatNameError(cat) ==
    IF cat.t # "dict" THEN "TypeError" ELSE IF ~DictHas(cat, PyStr(S_name)) THEN "KeyError" ELSE "ok"

\* mutant of CocoClassNames: categories without a name are skipped
CocoClassNames_SkipUnnamed(categories) ==
    IF categories.t # "list" THEN [ok |-> "TypeError", v |-> <<>>]
    ELSE LET HasName(cat) == cat.t = "dict" /\ \E i \in 1..Len(cat.v) : cat.v[i][1] = [t |-> "str", v |-> S_name]
             named == SelectSeq(categories.v, HasName)
         IN [ok |-> "ok", v |-> [i \in 1..Len(named) |-> named[i].v[CHOOSE k \in 1..Len(named[i].v) : named[i].v[k][1] = [t |-> "str", v |-> S_name]][2]]]

\* mutant of CocoClassNames: each name is kept once
CocoClassNames_Dedup(categories) ==
    IF categories.t # "list" THEN [ok |-> "TypeError", v |-> <<>>]
    ELSE IF \E i \in 1..Len(categories.v) : CatNameError(categories.v[i]) # "ok" THEN [ok |-> "KeyError", v |-> <<>>]
    ELSE LET names == [i \in 1..Len(categories.v) |-> DictGet(categories.v[i], PyStr(S_name), PyNone)]
             firsts == {i \in 1..Len(names) : \A j \in 1..(i - 1) : names[j] # names[i]}
             RECURSIVE Keep(_)
             Keep(i) == IF i > Len(names) THEN <<>>
                        ELSE (IF i \in firsts THEN <<names[i]>> ELSE <<>>) \o Keep(i + 1)
         IN [ok |-> "ok", v |-> Keep(1)]

\* line 85: [cat['name'] for cat in categories]
CocoClassNames(categories) ==
    IF categories.t \notin {"list", "dict", "str"} THEN [ok |-> "TypeError", v |-> <<>>]
    ELSE IF categories.t \in {"dict", "str"}
         THEN (IF Len(categories.v) = 0 THEN [ok |-> "ok", v |-> <<>>] ELSE [ok |-> "TypeError", v |-> <<>>])
    ELSE IF \E i \in 1..Len(categories.v) : CatNameError(categories.v[i]) # "ok"
         THEN [ok |-> CatNameError(categories.v[CHOOSE i \in 1..Len(categories.v) :
                        /\ CatNameError(categories.v[i]) # "ok"
                        /\ \A j \in 1..(i - 1) : CatNameError(categories.v[j]) = "ok"]), v |-> <<>>]
    ELSE [ok |-> "ok", v |-> [i \in 1..Len(categories.v) |-> DictGet(categories.v[i], PyStr(S_name), PyNone)]]

parse_coco_dataset(d) ==
    LET annotation_files == CocoAnnotationFiles(d) IN
    IF annotation_files = <<>>
    THEN {Raised("ValueError", "No COCO annotation file found in the dataset")}
    ELSE LET doc == FileDoc(d, annotation_files[1]) IN
         IF doc.kind = "dir" THEN {Raised("IsADirectoryError", "")}
         ELSE IF ~(doc.kind = "json" /\ doc.valid) THEN {Raised("JSONDecodeError", "")}
         ELSE IF doc.top.t # "dict" THEN {Raised("AttributeError", "get")}
         ELSE LET categories == DictGet(doc.top, PyStr(S_categories), PyList(<<>>))
                  images == DictGet(doc.top, PyStr(S_images), PyList(<<>>))
                  annotations == DictGet(doc.top, PyStr(S_annotations), PyList(<<>>))
                  class_names == CocoClassNames(categories)
              IN IF class_names.ok # "ok" THEN {Raised(class_names.ok, "")}
                 ELSE IF PyLen(images).ok # "ok" THEN {Raised("TypeError", "len")}
                 ELSE IF PyLen(annotations).ok # "ok" THEN {Raised("TypeError", "len")}
                 ELSE {CocoSummary(PyLen(categories).n, PyLen(images).n, PyLen(annotations).n,
                                   PyList(class_names.v))}

IsYaml(f) == EndsWith(f, <<".", "y", "a", "m", "l">>) \/ EndsWith(f, <<".", "y", "m", "l">>)

\* mutant of IsImage: the ending is compared ignoring case
IsImage_AnyCase(f) ==
    LET g == [i \in 1..Len(f) |-> IF \E k \in 1..26 : UpperCase[k] = f[i] THEN LowerCase[CHOOSE k \in 1..26 : UpperCase[k] = f[i]] ELSE f[i]]
    IN EndsWith(g, <<".", "j", "p", "g">>) \/ EndsWith(g, <<".", "j", "p", "e", "g">>) \/ EndsWith(g, <<".", "p", "n", "g">>)

\* line 132: f.endswith(('.jpg', '.jpeg', '.png'))
IsImage(f) == EndsWith(f, <<".", "j", "p", "g">>) \/ EndsWith(f, <<".", "j", "p", "e", "g">>) \/ EndsWith(f, <<".", "p", "n", "g">>)

\* lines 105-112: the manifest path, <<>> when none is found
YoloManifest(d) ==
    LET yaml_files == SelectSeq(ListDir(d, <<>>), IsYaml) IN
    IF Exists(d, <<S_data_yaml>>) THEN <<S_data_yaml>>
    ELSE IF yaml_files # <<>> THEN <<yaml_files[1]>>
    ELSE <<>>

\* mutant of YoloMaxIdPlus1: the list is sized by the number of keys
YoloMaxIdPlus1_CountKeys(pairs) ==
    IF Len(pairs) = 0 THEN [ok |-> "ValueError", n |-> 0]
    ELSE IF \E i \in 1..Len(pairs) : pairs[i][1].t # "int" THEN [ok |-> "TypeError", n |-> 0]
    ELSE [ok |-> "ok", n |-> Len(pairs)]

\* max(class_names.keys()) + 1, or the exception it raises
YoloMaxIdPlus1(pairs) ==
    IF Len(pairs) = 0 THEN [ok |-> "ValueError", n |-> 0]
    ELSE IF \E i, j \in 1..Len(pairs) : pairs[i][1].t # pairs[j][1].t THEN [ok |-> "TypeError", n |-> 0]
    ELSE IF pairs[1][1].t # "int" THEN [ok |-> "TypeError", n |-> 0]
    ELSE [ok |-> "ok", n |-> 1 + (CHOOSE m \in {pairs[i][1].v : i \in 1..Len(pairs)} :
                                    \A i \in 1..Len(pairs) : pairs[i][1].v <= m)]

\* lines 122-124: [''] * n, then class_list[idx] = name for the items in order
RECURSIVE YoloFill(_, _, _)
YoloFill(class_list, pairs, i) ==
    IF i > Len(pairs) THEN [ok |-> "ok", v |-> class_list]
    ELSE LET idx == pairs[i][1].v
             pos == IF idx < 0 THEN idx + Len(class_list) + 1 ELSE idx + 1
         IN IF pos < 1 \/ pos > Len(class_list) THEN [ok |-> "IndexError", v |-> <<>>]
            ELSE YoloFill([class_list EXCEPT ![pos] = pairs[i][2]], pairs, i + 1)

\* mutant of YoloClassNames: the list of a mapping is one place too short
YoloClassNames_NoPlusOne(data) ==
    LET names == DictGet(data, PyStr(S_names), PyList(<<>>)) IN
    IF names.t # "dict" THEN [ok |-> "ok", v |-> names]
    ELSE LET n == YoloMaxIdPlus1(names.v) IN
         IF n.ok # "ok" THEN [ok |-> n.ok, v |-> PyNone]
         ELSE LET filled == YoloFill([i \in 1..(IF n.n > 1 THEN n.n - 1 ELSE 0) |-> PyStr(<<>>)], names.v, 1) IN
              IF filled.ok # "ok" THEN [ok |-> filled.ok, v |-> PyNone]
              ELSE [ok |-> "ok", v |-> PyList(filled.v)]

\* lines 118-125: names, with a mapping turned into a list
YoloClassNames(data) ==
    LET names == DictGet(data, PyStr(S_names), PyList(<<>>)) IN
    IF names.t # "dict" THEN [ok |-> "ok", v |-> names]
    ELSE LET n == YoloMaxIdPlus1(names.v) IN
         IF n.ok # "ok" THEN [ok |-> n.ok, v |-> PyNone]
         ELSE LET filled == YoloFill([i \in 1..(IF n.n > 0 THEN n.n ELSE 0) |-> PyStr(<<>>)], names.v, 1) IN
              IF filled.ok # "ok" THEN [ok |-> filled.ok, v |-> PyNone]
              ELSE [ok |-> "ok", v |-> PyList(filled.v)]

\* line 132: the image files of one split, 0 when the split has no images directory
YoloSplitImages(d, split) ==
    IF IsDir(d, <<split, S_images>>) THEN Len(SelectSeq(ListDir(d, <<split, S_images>>), IsImage)) ELSE 0

parse_yolo_dataset(d) ==
    LET data_yaml == YoloManifest(d) IN
    IF data_yaml = <<>>
    THEN {Raised("ValueError", "No data.yaml or equivalent file found in YOLO dataset")}
    ELSE LET doc == FileDoc(d, data_yaml) IN
         IF doc.kind = "dir" THEN {Raised("IsADirectoryError", "")}
         ELSE IF ~(doc.kind \in {"yaml", "json"} /\ doc.valid) THEN {Raised("YAMLError", "")}
         ELSE IF doc.top.t # "dict" THEN {Raised("AttributeError", "get")}
         ELSE LET class_names == YoloClassNames(doc.top)
                  num_images == YoloSplitImages(d, S_train) + YoloSplitImages(d, S_val) + YoloSplitImages(d, S_test)
              IN IF class_names.ok # "ok" THEN {Raised(class_names.ok, "")}
                 ELSE IF PyLen(class_names.v).ok # "ok" THEN {Raised("TypeError", "len")}
                 ELSE {Summary(PyLen(class_names.v).n, num_images, class_names.v)}

IsDotXml(f) == EndsWith(f, <<".", "x", "m", "l">>)

\* lines 151-155: the annotations directory, <<>> when none exists
VocAnnotationsDir(d) ==
    IF IsDir(d, <<S_Annotations>>) THEN <<S_Annotations>>
    ELSE IF IsDir(d, <<S_annotations>>) THEN <<S_annotations>>
    ELSE <<>>

\* the sampling cap of line 165
VOC_SAMPLE_CAP == 100

Min(a, b) == IF a <= b THEN a ELSE b

\* mutant of VocSampled: every annotation file is parsed
VocSampled_All(annotation_files) == annotation_files

\* line 165: annotation_files[:min(100, len(annotation_files))]
VocSampled(annotation_files) ==
    SubSeq(annotation_files, 1, Min(VOC_SAMPLE_CAP, Len(annotation_files)))

\* ET.parse and obj.find('name').text raise for this file
VocFileError(doc) ==
    IF doc.kind = "dir" THEN "IsADirectoryError"
    ELSE IF ~(doc.kind = "xml" /\ doc.valid) THEN "ParseError"
    ELSE IF \E k \in 1..Len(doc.objects) : doc.objects[k] = Absent THEN "AttributeError"
    ELSE "ok"

\* the sequences list(s) may give for a set s
ListsOfSet(s) == {q \in [1..Cardinality(s) -> s] : \A i, j \in 1..Cardinality(s) : q[i] = q[j] => i = j}

parse_pascal_voc_dataset(d) ==
    LET annotations_dir == VocAnnotationsDir(d) IN
    IF annotations_dir = <<>>
    THEN {Raised("ValueError", "No Annotations directory found in Pascal VOC dataset")}
    ELSE LET annotation_files == SelectSeq(ListDir(d, annotations_dir), IsDotXml)
             sampled == VocSampled(annotation_files)
             docs == [i \in 1..Len(sampled) |-> FileDoc(d, Append(annotations_dir, sampled[i]))]
         IN IF \E i \in 1..Len(docs) : VocFileError(docs[i]) # "ok"
            THEN {Raised(VocFileError(docs[CHOOSE i \in 1..Len(docs) :
                            /\ VocFileError(docs[i]) # "ok"
                            /\ \A j \in 1..(i - 1) : VocFileError(docs[j]) = "ok"]), "")}
            ELSE LET class_names == UNION {{docs[i].objects[k] : k \in 1..Len(docs[i].objects)} : i \in 1..Len(docs)}
                 IN {Summary(Cardinality(class_names), Len(annotation_files), PyList(q)) : q \in ListsOfSet(class_names)}

-----------------------------------------------------------------------------
(* src/ml_utils.py: process_dataset, one action per step of an invocation   *)

FileEntry(payload) == [kind |-> "file", payload |-> payload, entries |-> <<>>]

DirEntry(entries) == [kind |-> "dir", payload |-> [fmt |-> "none", entries |-> <<>>, doc |-> BinDoc], entries |-> entries]

\* mutant of DatasetDir: every extension is stripped, not only the outermost
DatasetDir_AllExtensions(file_name) == SplitExtRoot(SplitExtRoot(file_name))

\* line 25: os.path.splitext(os.path.basename(file_path))[0] below UPLOAD_FOLDER
DatasetDir(file_name) == SplitExtRoot(file_name)

\* lines 29-40: how the upload is opened, by the suffix of its name
ContainerOf(file_name) ==
    IF EndsWith(file_name, <<".", "z", "i", "p">>) THEN "zip"
    ELSE IF EndsWith(file_name, <<".", "t", "a", "r", ".", "g", "z">>) \/ EndsWith(file_name, <<".", "t", "g", "z">>) THEN "targz"
    ELSE IF EndsWith(file_name, <<".", "t", "a", "r">>) THEN "tar"
    ELSE "copy"

\* zipfile.ZipFile(f), tarfile.open(f, 'r:gz') and tarfile.open(f, 'r') accept this content
Readable(container, payload) ==
    CASE container = "zip" -> payload.fmt = "zip"
      [] container = "targz" -> payload.fmt = "targz"
      [] container = "tar" -> payload.fmt \in {"tar", "targz"}
      [] OTHER -> TRUE

OpenError(container) == IF container = "zip" THEN "BadZipFile" ELSE "ReadError"

\* the content of a saved upload read as one document
DocOf(payload) == IF payload.fmt = "raw" THEN payload.doc ELSE BinDoc

\* mutant of ParserOf: an unmatched label falls through to the COCO parser
ParserOf_DefaultCoco(dataset_format) ==
    IF Upper(dataset_format) = S_YOLO THEN "YOLO"
    ELSE IF Upper(dataset_format) = S_PASCAL_VOC THEN "PASCAL VOC"
    ELSE "COCO"

\* mutant of ParserOf: the label is compared without upper()
ParserOf_CaseSensitive(dataset_format) ==
    IF dataset_format = S_COCO THEN "COCO"
    ELSE IF dataset_format = S_YOLO THEN "YOLO"
    ELSE IF dataset_format = S_PASCAL_VOC THEN "PASCAL VOC"
    ELSE ""

\* lines 43-50: the parser the label selects, "" when it selects none
ParserOf(dataset_format) ==
    IF Upper(dataset_format) = S_COCO THEN "COCO"
    ELSE IF Upper(dataset_format) = S_YOLO THEN "YOLO"
    ELSE IF Upper(dataset_format) = S_PASCAL_VOC THEN "PASCAL VOC"
    ELSE ""

RunParser(parser, d) ==
    CASE parser = "COCO" -> parse_coco_dataset(d)
      [] parser = "YOLO" -> parse_yolo_dataset(d)
      [] parser = "PASCAL VOC" -> parse_pascal_voc_dataset(d)

\* line 50: ValueError(f"Unsupported dataset format: {dataset_format}")
UnsupportedFormat(dataset_format) ==
    [Raised("ValueError", "Unsupported dataset format") EXCEPT !.arg = dataset_format]

Pending == [out |-> "pending", exc |-> "", msg |-> "", num_classes |-> 0, num_images |-> 0, class_names |-> PyNone, num_annotations |-> -1, arg |-> <<>>]

NewCall(file_name, dataset_format) ==
    [file_name |-> file_name, dataset_format |-> dataset_format, pc |-> "makedirs",
     dataset_dir |-> <<>>, members |-> <<>>, xi |-> 0, parser |-> "", log |-> <<>>, result |-> Pending]

Fail(c, exc, msg) ==
    calls' = [calls EXCEPT ![c].pc = "done", ![c].result = Raised(exc, msg)]

\* lines 25-26: os.makedirs(dataset_dir, exist_ok=True)
MakeDirs(c) ==
    LET dir == DatasetDir(calls[c].file_name) IN
    /\ calls[c].pc = "makedirs"
    /\ IF dir \in DOMAIN fs /\ fs[dir].kind = "file"
       THEN /\ Fail(c, "FileExistsError", "")
            /\ UNCHANGED fs
       ELSE /\ fs' = IF dir \in DOMAIN fs THEN fs ELSE fs @@ (dir :> DirEntry(<<>>))
            /\ calls' = [calls EXCEPT ![c].pc = "extract", ![c].dataset_dir = dir,
                                      ![c].log = Append(@, "makedirs")]
    /\ UNCHANGED <<vvars, rvars>>

\* line 26, the file system refusing the directory (permissions, disk full)
MakeDirsDenied(c) ==
    /\ calls[c].pc = "makedirs"
    /\ DatasetDir(calls[c].file_name) \notin DOMAIN fs
    /\ Fail(c, "OSError", "")
    /\ UNCHANGED <<fs, vvars, rvars>>

\* lines 29-40: the upload is opened; a non-archive is copied into the directory
ExtractOpen(c) ==
    LET name == calls[c].file_name
        container == ContainerOf(name)
        payload == fs[name].payload
        dir == calls[c].dataset_dir
    IN /\ calls[c].pc = "extract"
       /\ IF ~Readable(container, payload)
          THEN /\ Fail(c, OpenError(container), "")
               /\ UNCHANGED fs
          ELSE IF container = "copy" /\ WriteConflict(fs[dir].entries, [path |-> <<name>>, doc |-> DocOf(payload)])
          THEN /\ Fail(c, "OSError", "")
               /\ UNCHANGED fs
          ELSE IF container = "copy"
          THEN /\ fs' = [fs EXCEPT ![dir].entries = WriteEntry(@, [path |-> <<name>>, doc |-> DocOf(payload)])]
               /\ calls' = [calls EXCEPT ![c].pc = "dispatch", ![c].log = Append(@, "extracted")]
          ELSE /\ calls' = [calls EXCEPT ![c].members = payload.entries, ![c].xi = 1,
                                         ![c].pc = IF payload.entries = <<>> THEN "dispatch" ELSE "extracting",
                                         ![c].log = IF payload.entries = <<>> THEN Append(@, "extracted") ELSE @]
               /\ UNCHANGED fs
       /\ UNCHANGED <<vvars, rvars>>

\* extractall: the next member of the archive is written into the directory,
\* over a file of the same path; a member that cannot be written ends the call
\* with an OSError and leaves what is there
ExtractMember(c) ==
    LET dir == calls[c].dataset_dir
        last == calls[c].xi = Len(calls[c].members)
    IN /\ calls[c].pc = "extracting"
       /\ IF WriteConflict(fs[dir].entries, calls[c].members[calls[c].xi])
          THEN /\ Fail(c, "OSError", "")
               /\ UNCHANGED fs
          ELSE /\ fs' = [fs EXCEPT ![dir].entries = WriteEntry(@, calls[c].members[calls[c].xi])]
               /\ calls' = [calls EXCEPT ![c].xi = @ + 1,
                                         ![c].pc = IF last THEN "dispatch" ELSE "extracting",
                                         ![c].log = IF last THEN Append(@, "extracted") ELSE @]
       /\ UNCHANGED <<vvars, rvars>>

\* extractall, the file system refusing a write: the members written so far stay
ExtractDenied(c) ==
    /\ calls[c].pc = "extracting"
    /\ Fail(c, "OSError", "")
    /\ UNCHANGED <<fs, vvars, rvars>>

\* lines 43-50: the label is matched, upper-cased, against the three formats
Dispatch(c) ==
    LET parser == ParserOf(calls[c].dataset_format) IN
    /\ calls[c].pc = "dispatch"
    /\ calls' = IF parser = ""
                THEN [calls EXCEPT ![c].pc = "done",
                                   ![c].result = UnsupportedFormat(calls[c].dataset_format)]
                ELSE [calls EXCEPT ![c].pc = "parse", ![c].parser = parser]
    /\ UNCHANGED <<fs, vvars, rvars>>

\* lines 44, 46, 48: the selected parser reads the working directory
Parse(c) ==
    /\ calls[c].pc = "parse"
    /\ \E r \in RunParser(calls[c].parser, fs[calls[c].dataset_dir].entries) :
          calls' = [calls EXCEPT ![c].pc = "done", ![c].result = r, ![c].log = Append(@, calls[c].parser)]
    /\ UNCHANGED <<fs, vvars, rvars>>

-----------------------------------------------------------------------------
(* src/models.py: the tables the routes commit to *)

\* no Dataset and no TrainingJob record
EmptyDb == [datasets |-> <<>>, jobs |-> <<>>]

-----------------------------------------------------------------------------
(* Inputs of validate_training_config *)

Fields == {"model_type", "model_variant", "epochs", "batch_size", "learning_rate", "validation_split"}

ModelTypeInputs == {Absent, PyStr(<<>>), PyStr(S_yolo), PyStr(S_rf_detr), PyStr(S_detr), PyList(<<PyStr(S_yolo)>>)}

ModelVariantInputs == {Absent, PyStr(<<>>), PyStr(S_yolov8n), PyStr(S_rf_detr_r50), PyStr(S_bogus), PyInt(5)}

EpochsInputs == {Absent, PyNone, PyInt(10), PyInt(0), PyFloat(150), PyFloat(50), PyInf, PyStr(S_abc), PyStr(S_sp10), PyStr(S_1_5)}

BatchSizeInputs == {Absent, PyInt(16), PyInt(-1), PyInf, PyStr(S_abc)}

LearningRateInputs == {Absent, PyFloat(1), PyFloat(0), PyInf, PyNaN, PyStr(S_abc)}

ValidationSplitInputs == {Absent, PyFloat(20), PyFloat(0), PyFloat(100), PyBool(TRUE), PyNaN, PyStr(S_0_2), PyStr(S_nan), PyStr(S_abc), PyList(<<>>)}

CatalogInputs ==
    { [has |-> TRUE, models |-> SUPPORTED_MODELS],
      [has |-> TRUE, models |-> (S_yolo :> SUPPORTED_MODELS[S_yolo])],
      [has |-> FALSE, models |-> EmptyDict] }

VInit ==
    /\ \E mt \in ModelTypeInputs, mv \in ModelVariantInputs, e \in EpochsInputs,
          b \in BatchSizeInputs, lr \in LearningRateInputs, vs \in ValidationSplitInputs :
          parameters = [model_type |-> mt, model_variant |-> mv, epochs |-> e,
                        batch_size |-> b, learning_rate |-> lr, validation_split |-> vs]
    /\ supported_models \in CatalogInputs
    /\ vpc = "call"
    /\ vresult = [out |-> "pending", msg |-> "", args |-> <<>>]
    /\ fs = <<>>
    /\ calls = <<>>
    /\ reqs = <<>>
    /\ db = EmptyDb

\* one call of validate_training_config(parameters)
Validate ==
    /\ vpc = "call"
    /\ vresult' = validate_training_config(parameters, supported_models)
    /\ vpc' = "done"
    /\ UNCHANGED <<parameters, supported_models, dvars, rvars>>

VNext == Validate

SpecValidate == VInit /\ [][VNext]_vars

-----------------------------------------------------------------------------
(* Inputs of process_dataset: upload names, format labels, documents, archives *)

F_ds_zip == <<"d", "s", ".", "z", "i", "p">>

F_ds_tar_gz == <<"d", "s", ".", "t", "a", "r", ".", "g", "z">>

F_ds_tgz == <<"d", "s", ".", "t", "g", "z">>

F_ds_tar == <<"d", "s", ".", "t", "a", "r">>

F_ds_json == <<"d", "s", ".", "j", "s", "o", "n">>

F_ds == <<"d", "s">>

F_DS_ZIP == <<"d", "s", ".", "Z", "I", "P">>

F_inst_json == <<"i", "n", "s", "t", ".", "j", "s", "o", "n">>

F_classes_yml == <<"c", "l", "a", "s", "s", "e", "s", ".", "y", "m", "l">>

F_a_jpg == <<"a", ".", "j", "p", "g">>

F_b_png == <<"b", ".", "p", "n", "g">>

F_c_txt == <<"c", ".", "t", "x", "t">>

F_A_JPG == <<"A", ".", "J", "P", "G">>

F_d_jpeg == <<"d", ".", "j", "p", "e", "g">>

F_1_xml == <<"1", ".", "x", "m", "l">>

F_2_xml == <<"2", ".", "x", "m", "l">>

F_readme == <<"r", "e", "a", "d", "m", "e", ".", "t", "x", "t">>

L_COCO == <<"C", "O", "C", "O">>

L_coco == <<"c", "o", "c", "o">>

L_Yolo == <<"Y", "o", "l", "o">>

L_Pascal_VOC == <<"P", "a", "s", "c", "a", "l", " ", "V", "O", "C">>

L_PASCAL_VOC == <<"P", "A", "S", "C", "A", "L", " ", "V", "O", "C">>

L_PASCALVOC == <<"P", "A", "S", "C", "A", "L", "_", "V", "O", "C">>

L_XYZ == <<"X", "Y", "Z">>

L_empty == <<>>

\* the longest names sequence, category list and object list of a document
MaxNames == 2

\* the largest class id of a names mapping
MaxClassId == 2

SeqsUpTo(S, n) == UNION {[1..k -> S] : k \in 0..n}

N_a == PyStr(<<"a">>)

N_b == PyStr(<<"b">>)

File(path, doc) == [path |-> path, doc |-> doc]

JsonDoc(top) == [kind |-> "json", valid |-> TRUE, top |-> top, objects |-> <<>>]

YamlDoc(top) == [kind |-> "yaml", valid |-> TRUE, top |-> top, objects |-> <<>>]

XmlDoc(objects) == [kind |-> "xml", valid |-> TRUE, top |-> PyNone, objects |-> objects]

InvalidDoc(kind) == [kind |-> kind, valid |-> FALSE, top |-> PyNone, objects |-> <<>>]

\* a category: a mapping with or without a name, or not a mapping at all
CategoryInputs ==
    { PyDict(<<<<PyStr(S_name), N_a>>>>), PyDict(<<<<PyStr(S_name), N_b>>>>),
      PyDict(<<<<PyStr(S_name), PyStr(<<>>)>>>>), PyDict(<<<<PyStr(S_name), PyNone>>>>),
      PyDict(<<>>), N_a }

CocoField(key, values) == {<<>>} \cup {<<<<PyStr(key), v>>>> : v \in values}

CocoDocInputs ==
    { JsonDoc(PyDict(c \o i \o a)) :
        c \in CocoField(S_categories, {PyList(q) : q \in SeqsUpTo(CategoryInputs, MaxNames)} \cup {PyNone}),
        i \in CocoField(S_images, {PyList(<<PyInt(1), PyInt(2)>>), PyNone}),
        a \in CocoField(S_annotations, {PyList(<<PyInt(1)>>)}) }
    \cup {JsonDoc(PyList(<<>>)), InvalidDoc("json")}

\* a well-formed dataset of each format
GoodCoco == <<File(<<F_inst_json>>, JsonDoc(PyDict(<<<<PyStr(S_categories), PyList(<<PyDict(<<<<PyStr(S_name), N_a>>>>)>>)>>>>)))>>

\* a second COCO dataset: inst.json with the categories b, a
GoodCoco2 == <<File(<<F_inst_json>>, JsonDoc(PyDict(<<<<PyStr(S_categories), PyList(<<PyDict(<<<<PyStr(S_name), N_b>>>>), PyDict(<<<<PyStr(S_name), N_a>>>>)>>)>>>>)))>>

GoodYolo == <<File(<<S_data_yaml>>, YamlDoc(PyDict(<<<<PyStr(S_names), PyList(<<N_a, N_b>>)>>>>))), File(<<S_train, S_images, F_a_jpg>>, BinDoc)>>

GoodVoc == <<File(<<S_Annotations, F_1_xml>>, XmlDoc(<<N_b>>))>>

\* three annotation documents told apart by their summaries
CocoDocChoice ==
    {GoodCoco[1].doc,
     JsonDoc(PyDict(<<<<PyStr(S_categories), PyList(<<PyDict(<<<<PyStr(S_name), N_b>>>>), PyDict(<<<<PyStr(S_name), N_a>>>>)>>)>>>>)),
     InvalidDoc("json")}

\* one annotation file at the top or in annotations/, and several candidates
\* at both places
CocoArchiveInputs ==
    {<<File(<<F_inst_json>>, d)>> : d \in CocoDocInputs}
    \cup {<<File(<<S_annotations, F_inst_json>>, d), File(<<F_readme>>, BinDoc)>> : d \in CocoDocInputs}
    \cup {<<File(<<F_readme>>, BinDoc), File(<<F_inst_json>>, d1), File(<<F_ds_json>>, d2), File(<<S_annotations, F_inst_json>>, d3)>> :
             d1, d2, d3 \in CocoDocChoice}
    \cup {<<File(<<S_annotations, F_ds_json>>, d1), File(<<S_annotations, F_inst_json>>, d2), File(<<S_annotations, F_readme>>, BinDoc)>> :
             d1, d2 \in CocoDocChoice}
    \cup {<<File(<<S_annotations>>, BinDoc)>>, <<File(<<S_annotations, F_readme>>, BinDoc)>>}

ClassIdInputs == {PyInt(k) : k \in -1..MaxClassId}

DistinctKeys(q) == \A i, j \in 1..Len(q) : q[i][1] = q[j][1] => i = j

\* the value of names in a manifest
NamesInputs ==
    {PyList(q) : q \in SeqsUpTo({N_a, N_b, PyStr(<<>>)}, MaxNames)}
    \cup {PyDict(q) : q \in {r \in SeqsUpTo(ClassIdInputs \X {N_a, N_b}, MaxNames) : DistinctKeys(r)}}
    \cup {PyDict(<<<<PyStr(<<"0">>), N_a>>>>), PyDict(<<<<PyInt(0), N_a>>, <<PyStr(<<"1">>), N_b>>>>),
          PyStr(S_abc), PyNone, PyInt(3)}

YoloDocInputs ==
    {YamlDoc(PyDict(<<<<PyStr(S_names), n>>>>)) : n \in NamesInputs}
    \cup {YamlDoc(PyDict(<<>>)), YamlDoc(PyNone), InvalidDoc("yaml")}

ImageLayoutInputs ==
    { <<>>,
      <<File(<<S_train, S_images, F_a_jpg>>, BinDoc), File(<<S_train, S_images, F_b_png>>, BinDoc),
        File(<<S_train, S_images, F_c_txt>>, BinDoc), File(<<S_train, S_images, F_A_JPG>>, BinDoc)>>,
      <<File(<<S_train, S_images, F_a_jpg>>, BinDoc), File(<<S_val, S_images, F_d_jpeg>>, BinDoc),
        File(<<S_val, S_images, F_b_png>>, BinDoc), File(<<S_test, S_images>>, DirDoc), File(<<S_images, F_a_jpg>>, BinDoc),
        File(<<S_train, S_images, F_b_png, F_c_txt>>, BinDoc), File(<<S_train, F_d_jpeg>>, BinDoc)>> }

YoloArchiveInputs ==
    {<<File(<<S_data_yaml>>, d)>> \o im : d \in YoloDocInputs, im \in ImageLayoutInputs}
    \cup {<<File(<<F_readme>>, BinDoc), File(<<F_classes_yml>>, d)>> : d \in YoloDocInputs}

\* an object element: the text of its name child, None for an empty one,
\* Absent when it has no name child
ObjectInputs == {N_a, N_b, PyNone, Absent}

XmlDocInputs == {XmlDoc(q) : q \in SeqsUpTo(ObjectInputs, MaxNames)} \cup {InvalidDoc("xml")}

VocArchiveInputs ==
    {<<File(<<dir, F_1_xml>>, x), File(<<dir, F_readme>>, BinDoc)>> : dir \in {S_Annotations, S_annotations}, x \in XmlDocInputs}
    \cup {<<File(<<S_Annotations, F_1_xml>>, x), File(<<S_Annotations, F_2_xml>>, y)>> : x, y \in XmlDocInputs}
    \cup {<<File(<<S_Annotations>>, DirDoc)>>}

\* the name of the i-th annotation file of a large dataset: 001.xml, 002.xml, ...
XmlName(i) ==
    <<Digits[(i \div 100) + 1], Digits[((i \div 10) % 10) + 1], Digits[(i % 10) + 1], ".", "x", "m", "l">>

\* n annotation files of class a, the k-th replaced by doc
LargeVoc(n, k, doc) ==
    [i \in 1..n |-> File(<<S_Annotations, XmlName(i)>>, IF i = k THEN doc ELSE XmlDoc(<<N_a>>))]

\* datasets at and beyond the sampling cap: a file with a class of its own,
\* an unparsable file or an object without name at, just after and well after
\* the 100th place
VocLargeArchiveInputs ==
    {LargeVoc(nk[1], nk[2], doc) : nk \in {<<100, 100>>, <<101, 101>>, <<150, 120>>},
                                  doc \in {XmlDoc(<<N_b>>), InvalidDoc("xml"), XmlDoc(<<Absent>>)}}

\* one archive of each format, one holding all three, and an empty one
PlainArchiveInputs ==
    {GoodCoco, GoodYolo, GoodVoc, GoodCoco \o GoodYolo \o GoodVoc, <<>>,
     <<GoodCoco2[1], File(<<S_train>>, BinDoc)>>, <<GoodCoco2[1], File(<<S_train, S_images, F_b_png>>, BinDoc)>>}

Archive(fmt, entries) == [fmt |-> fmt, entries |-> entries, doc |-> BinDoc]

RawFile(doc) == [fmt |-> "raw", entries |-> <<>>, doc |-> doc]

FileNameInputs == {F_ds_zip, F_ds_tar_gz, F_ds_tgz, F_ds_tar, F_ds_json, F_ds, F_DS_ZIP}

LabelInputs == {L_COCO, L_coco, L_Yolo, L_Pascal_VOC, L_PASCAL_VOC, L_PASCALVOC, L_XYZ, L_empty}

PayloadInputs ==
    {Archive(fmt, e) : fmt \in {"zip", "targz", "tar"}, e \in PlainArchiveInputs}
    \cup {RawFile(GoodCoco[1].doc), RawFile(GoodYolo[1].doc), RawFile(BinDoc)}

\* what an earlier upload of the same base name left in the working directory
PriorDirInputs == {<<>>, GoodCoco \o GoodYolo, <<File(<<S_train>>, BinDoc), File(<<F_readme>>, BinDoc)>>}

\* one invocation on a saved upload: any name, content and label over the plain
\* archives, or a zip of the documents of one format under the three labels
DInit ==
    /\ \/ \E name \in FileNameInputs, payload \in PayloadInputs, label \in LabelInputs :
            /\ calls = <<NewCall(name, label)>>
            /\ \/ fs = (name :> FileEntry(payload))
               \/ /\ DatasetDir(name) # name
                  /\ \E prior \in PriorDirInputs :
                        fs = (name :> FileEntry(payload)) @@ (DatasetDir(name) :> DirEntry(prior))
       \/ \E e \in CocoArchiveInputs \cup YoloArchiveInputs \cup VocArchiveInputs \cup VocLargeArchiveInputs,
             label \in {L_coco, L_Yolo, L_Pascal_VOC} :
            /\ calls = <<NewCall(F_ds_zip, label)>>
            /\ fs = (F_ds_zip :> FileEntry(Archive("zip", e)))
    /\ parameters = [f \in Fields |-> Absent]
    /\ supported_models = [has |-> TRUE, models |-> SUPPORTED_MODELS]
    /\ vpc = "idle"
    /\ vresult = [out |-> "pending", msg |-> "", args |-> <<>>]
    /\ reqs = <<>>
    /\ db = EmptyDb

DNext ==
    \/ \E c \in DOMAIN calls : MakeDirs(c)
    \/ \E c \in DOMAIN calls : MakeDirsDenied(c)
    \/ \E c \in DOMAIN calls : ExtractOpen(c)
    \/ \E c \in DOMAIN calls : ExtractMember(c)
    \/ \E c \in DOMAIN calls : ExtractDenied(c)
    \/ \E c \in DOMAIN calls : Dispatch(c)
    \/ \E c \in DOMAIN calls : Parse(c)

SpecDataset == DInit /\ [][DNext]_vars

-----------------------------------------------------------------------------
(* Two invocations of process_dataset on two saved uploads, interleaved at   *)
(* the steps of directory creation, extraction writes and the parser's read *)

F_xs_zip == <<"x", "s", ".", "z", "i", "p">>

\* what the two uploads hold: two COCO datasets that differ in inst.json, and a YOLO dataset
ConcurrentArchiveInputs ==
    {GoodCoco,
     <<File(<<F_inst_json>>, JsonDoc(PyDict(<<<<PyStr(S_categories), PyList(<<PyDict(<<<<PyStr(S_name), N_b>>>>), PyDict(<<<<PyStr(S_name), N_a>>>>)>>)>>>>))),
       File(<<S_train, S_images, F_b_png>>, BinDoc)>>,
     GoodYolo}

\* the saved upload of this name holding these entries: an archive of the
\* container the name announces, or the first document as a single file
SavedUpload(name, entries) ==
    IF ContainerOf(name) = "copy" THEN FileEntry(RawFile(entries[1].doc))
    ELSE FileEntry(Archive(ContainerOf(name), entries))

CInit ==
    /\ \E n1, n2 \in FileNameInputs \cup {F_inst_json, F_xs_zip} :
       \E e1, e2 \in ConcurrentArchiveInputs :
       \E l1, l2 \in {L_coco, L_Yolo} :
          /\ n1 # n2
          /\ calls = <<NewCall(n1, l1), NewCall(n2, l2)>>
          /\ fs = (n1 :> SavedUpload(n1, e1)) @@ (n2 :> SavedUpload(n2, e2))
    /\ parameters = [f \in Fields |-> Absent]
    /\ supported_models = [has |-> TRUE, models |-> SUPPORTED_MODELS]
    /\ vpc = "idle"
    /\ vresult = [out |-> "pending", msg |-> "", args |-> <<>>]
    /\ reqs = <<>>
    /\ db = EmptyDb

SpecConcurrent == CInit /\ [][DNext]_vars

-----------------------------------------------------------------------------
(* src/routes.py, src/api.py: the routes that call process_dataset and       *)
(* validate_training_config, one action per step of a request               *)

\* a request: the route, its position, its inputs and what it has done so far
Request(route, pc) ==
    [route |-> route, pc |-> pc, file_name |-> <<>>, payload |-> RawFile(BinDoc), dataset_format |-> <<>>,
     call |-> 0, complete |-> TRUE, dataset_id |-> 1, form |-> [f \in Fields |-> PyNone],
     parameters |-> [f \in Fields |-> Absent], validation |-> [out |-> "pending", msg |-> "", args |-> <<>>],
     job |-> 0, run_id |-> PyNone, status |-> 0, trace |-> <<>>]

\* the statuses of a TrainingJob (models.py line 43, and 'cancelled' of cancel_job)
JobStatuses == {"pending", "running", "cancelled", "completed", "failed"}

\* the request ends with this HTTP status (302 with a flashed message for the pages)
Respond(r, status) == [reqs EXCEPT ![r].pc = "done", ![r].status = status]

\* mutant of SummaryReturned: the record is written whatever process_dataset did
SummaryReturned_Always(result) == TRUE

\* routes.py lines 77-113: the try block goes on after process_dataset only when it returned
SummaryReturned(result) == result.out = "return"

\* routes.py lines 89-99: the Dataset record of a summary
DatasetRecord(r, result) ==
    [upload |-> r, path |-> reqs[r].file_name, format |-> reqs[r].dataset_format,
     num_classes |-> result.num_classes, num_images |-> result.num_images, class_names |-> result.class_names]

\* upload_dataset, lines 55-87: the form is checked, the file is saved and
\* process_dataset is called on it
UploadSave(r) ==
    LET name == reqs[r].file_name IN
    /\ reqs[r].route = "upload" /\ reqs[r].pc = "save"
    /\ IF reqs[r].dataset_format = <<>>
       THEN /\ reqs' = Respond(r, 302)
            /\ UNCHANGED <<fs, calls>>
       ELSE IF name \in DOMAIN fs /\ fs[name].kind = "dir"
       THEN /\ reqs' = Respond(r, 302)
            /\ UNCHANGED <<fs, calls>>
       ELSE /\ fs' = [n \in DOMAIN fs \cup {name} |-> IF n = name THEN FileEntry(reqs[r].payload) ELSE fs[n]]
            /\ calls' = Append(calls, NewCall(name, reqs[r].dataset_format))
            /\ reqs' = [reqs EXCEPT ![r].pc = "process", ![r].call = Len(calls) + 1]
    /\ UNCHANGED <<vvars, db>>

\* upload_dataset, lines 87-113: process_dataset has ended; its summary is
\* committed as a Dataset record, its exception is flashed
UploadRecord(r) ==
    /\ reqs[r].route = "upload" /\ reqs[r].pc = "process"
    /\ calls[reqs[r].call].pc = "done"
    /\ reqs' = Respond(r, 302)
    /\ IF SummaryReturned(calls[reqs[r].call].result)
       THEN \E committed \in BOOLEAN :
               db' = IF committed
                     THEN [db EXCEPT !.datasets = Append(@, DatasetRecord(r, calls[reqs[r].call].result))]
                     ELSE db
       ELSE UNCHANGED db
    /\ UNCHANGED <<vvars, dvars>>

\* int(x) if x else default, float(x) if x else default (routes.py lines 155-165)
FormInt(x, default) ==
    IF ~Truthy(x) THEN [ok |-> "ok", v |-> default]
    ELSE [ok |-> IntOf(x).ok, v |-> PyInt(IntOf(x).n)]

FormFloat(x, default) ==
    IF ~Truthy(x) THEN [ok |-> "ok", v |-> default]
    ELSE [ok |-> FloatOf(x).ok, v |-> [t |-> "float", k |-> FloatOf(x).k, v |-> FloatOf(x).h]]

\* configure_training, lines 145-180: the parameters built from the form, or
\* the exception of the first conversion that fails.  The default learning
\* rate 0.001 is the smallest positive value of the fixed-point grid.
FormParameters(form) ==
    LET epochs == FormInt(form.epochs, PyInt(100))
        batch_size == FormInt(form.batch_size, PyInt(16))
        learning_rate == FormFloat(form.learning_rate, PyFloat(1))
        validation_split == FormFloat(form.validation_split, PyFloat(20))
        failed == {x \in {epochs, batch_size, learning_rate, validation_split} : x.ok # "ok"}
    IN [ok |-> failed = {},
        v |-> [model_type |-> form.model_type, model_variant |-> form.model_variant,
               epochs |-> epochs.v, batch_size |-> batch_size.v,
               learning_rate |-> learning_rate.v, validation_split |-> validation_split.v]]

\* mutant of ValidationPasses: the verdict is ignored
ValidationPasses_Always(validation) == TRUE

\* `if validation_error:` (api.py line 105, routes.py line 184) is not taken
ValidationPasses(validation) == validation.out = "None"

\* Dataset.query.get(dataset_id) finds a record
DatasetFound(id) == id \in 1..Len(db.datasets)

\* create_job lines 88-106, configure_training lines 140-186: the request is
\* checked and its parameters are validated
JobValidate(r) ==
    LET q == reqs[r]
        built == IF q.route = "api" THEN [ok |-> TRUE, v |-> q.parameters] ELSE FormParameters(q.form)
        validation == validate_training_config(built.v, supported_models)
        called == [reqs EXCEPT ![r].parameters = built.v, ![r].validation = validation,
                               ![r].trace = Append(@, "validate_training_config")]
    IN /\ q.route \in {"api", "form"} /\ q.pc = "validate"
       /\ reqs' = IF q.route = "api" /\ ~q.complete THEN Respond(r, 400)
                  ELSE IF ~DatasetFound(q.dataset_id) THEN Respond(r, 404)
                  ELSE IF ~built.ok THEN Respond(r, 302)
                  ELSE IF validation.out = "raise" THEN [called EXCEPT ![r].pc = "done", ![r].status = 500]
                  ELSE IF ~ValidationPasses(validation)
                       THEN [called EXCEPT ![r].pc = "done", ![r].status = IF q.route = "api" THEN 400 ELSE 302]
                  ELSE [called EXCEPT ![r].pc = "experiment"]
       /\ UNCHANGED <<vvars, dvars, db>>

\* the except branch of the job routes (api.py lines 147-149, routes.py lines 219-222)
JobFailed(r) == IF reqs[r].route = "api" THEN 500 ELSE 302

\* create_mlflow_experiment(name, parameters) returns the experiment and run ids, or raises
JobExperiment(r) ==
    /\ reqs[r].route \in {"api", "form"} /\ reqs[r].pc = "experiment"
    /\ \E ok \in BOOLEAN :
          reqs' = [reqs EXCEPT ![r].trace = Append(@, "create_mlflow_experiment"),
                               ![r].pc = IF ok THEN "add" ELSE "done",
                               ![r].status = IF ok THEN @ ELSE JobFailed(r)]
    /\ UNCHANGED <<vvars, dvars, db>>

\* the TrainingJob record of a request, as first committed
PendingJob(r) ==
    [request |-> r, status |-> "pending", parameters |-> reqs[r].parameters,
     dagster_run_id |-> PyNone, started_at |-> PyNone]

\* db.session.add(new_job); db.session.commit(): the record is stored as pending
JobCommitPending(r) ==
    /\ reqs[r].route \in {"api", "form"} /\ reqs[r].pc = "add"
    /\ \E ok \in BOOLEAN :
          IF ok
          THEN /\ db' = [db EXCEPT !.jobs = Append(@, PendingJob(r))]
               /\ reqs' = [reqs EXCEPT ![r].pc = "submit", ![r].job = Len(db.jobs) + 1]
          ELSE /\ reqs' = Respond(r, JobFailed(r))
               /\ UNCHANGED db
    /\ UNCHANGED <<vvars, dvars>>

\* what the pipeline service may answer to a submission: an error (the request
\* or raise_for_status raises), or a body with this run.runId (None if it has none)
S_run == <<"r", "u", "n">>
SubmitResponses ==
    {[ok |-> FALSE, runId |-> PyNone]} \cup {[ok |-> TRUE, runId |-> v] : v \in {PyNone, PyStr(<<>>), PyStr(S_run)}}

\* mutant of RunIdAccepted: any answer is taken as a run id
RunIdAccepted_Any(run_id) == TRUE

\* dagster_pipelines.py lines 87-89: `if not run_id: raise ValueError(...)`
RunIdAccepted(run_id) == Truthy(run_id)

\* submit_dagster_pipeline, lines 73-96: the run id of the answer, or an exception
submit_dagster_pipeline(response) ==
    IF ~response.ok THEN [out |-> "raise", run_id |-> PyNone]
    ELSE IF ~RunIdAccepted(response.runId) THEN [out |-> "raise", run_id |-> PyNone]
    ELSE [out |-> "return", run_id |-> response.runId]

\* submit_dagster_pipeline(new_job.id, parameters) returns a run id, or raises
JobSubmit(r) ==
    /\ reqs[r].route \in {"api", "form"} /\ reqs[r].pc = "submit"
    /\ \E response \in SubmitResponses :
          LET submitted == submit_dagster_pipeline(response) IN
          reqs' = [reqs EXCEPT ![r].trace = Append(@, "submit_dagster_pipeline"),
                               ![r].pc = IF submitted.out = "return" THEN "update" ELSE "done",
                               ![r].run_id = submitted.run_id,
                               ![r].status = IF submitted.out = "return" THEN @ ELSE JobFailed(r)]
    /\ UNCHANGED <<vvars, dvars, db>>

\* the record is set to running with its run id and start time, and committed
JobCommitRunning(r) ==
    /\ reqs[r].route \in {"api", "form"} /\ reqs[r].pc = "update"
    /\ \E ok \in BOOLEAN :
          IF ok
          THEN /\ db' = [db EXCEPT !.jobs[reqs[r].job].status = "running",
                                    !.jobs[reqs[r].job].dagster_run_id = reqs[r].run_id,
                                    !.jobs[reqs[r].job].started_at = PyStr(<<"n", "o", "w">>)]
               /\ reqs' = Respond(r, IF reqs[r].route = "api" THEN 201 ELSE 302)
          ELSE /\ reqs' = Respond(r, JobFailed(r))
               /\ UNCHANGED db
    /\ UNCHANGED <<vvars, dvars>>

\* cancel_job, lines 168-171: the job is loaded and its status is checked
CancelLoad(r) ==
    /\ reqs[r].route = "cancel" /\ reqs[r].pc = "load"
    /\ reqs' = IF reqs[r].job \notin DOMAIN db.jobs THEN Respond(r, 404)
               ELSE IF db.jobs[reqs[r].job].status # "running" THEN Respond(r, 400)
               ELSE [reqs EXCEPT ![r].pc = "cancel", ![r].run_id = db.jobs[reqs[r].job].dagster_run_id]
    /\ UNCHANGED <<vvars, dvars, db>>

\* cancel_job, lines 173-176 and 184-186: cancel_dagster_pipeline(job.dagster_run_id)
\* returns, or raises
CancelPipeline(r) ==
    /\ reqs[r].route = "cancel" /\ reqs[r].pc = "cancel"
    /\ \E ok \in BOOLEAN :
          reqs' = [reqs EXCEPT ![r].trace = Append(@, "cancel_dagster_pipeline"),
                               ![r].pc = IF ok THEN "commit" ELSE "done",
                               ![r].status = IF ok THEN @ ELSE 500]
    /\ UNCHANGED <<vvars, dvars, db>>

\* cancel_job, lines 178-186: job.status = 'cancelled' is committed
CancelCommit(r) ==
    /\ reqs[r].route = "cancel" /\ reqs[r].pc = "commit"
    /\ \E ok \in BOOLEAN :
          IF ok
          THEN /\ db' = [db EXCEPT !.jobs[reqs[r].job].status = "cancelled"]
               /\ reqs' = Respond(r, 200)
          ELSE /\ reqs' = Respond(r, 500)
               /\ UNCHANGED db
    /\ UNCHANGED <<vvars, dvars>>

\* an upload of any name, content and label into an upload folder that may
\* hold the working directory of an earlier upload
UploadInit ==
    /\ \E name \in FileNameInputs, payload \in PayloadInputs, label \in LabelInputs :
          /\ reqs = <<[Request("upload", "save") EXCEPT !.file_name = name, !.payload = payload, !.dataset_format = label]>>
          /\ \/ fs = <<>>
             \/ \E prior \in PriorDirInputs : fs = (DatasetDir(name) :> DirEntry(prior))
    /\ calls = <<>>
    /\ db = EmptyDb

\* the parameters of a POST /api/jobs body
ApiParameterInputs ==
    {[model_type |-> mt, model_variant |-> mv, epochs |-> e, batch_size |-> PyInt(16), learning_rate |-> lr, validation_split |-> vs] :
        mt \in {PyStr(S_yolo), Absent}, mv \in {PyStr(S_yolov8n), PyStr(S_bogus)},
        e \in {PyInt(10), PyInt(0), PyInf, PyStr(S_abc)}, lr \in {PyFloat(1), PyNaN}, vs \in {PyFloat(20), PyFloat(100)}}

\* the fields of the configuration form: strings, None for a field left out
FormInputs ==
    {[model_type |-> mt, model_variant |-> PyStr(S_yolov8n), epochs |-> e, batch_size |-> b, learning_rate |-> lr, validation_split |-> vs] :
        mt \in {PyStr(S_yolo), PyNone}, e \in {PyNone, PyStr(<<>>), PyStr(S_sp10), PyStr(S_abc), PyStr(<<"0">>)},
        b \in {PyStr(<<"1", "6">>), PyStr(S_1_5)}, lr \in {PyNone, PyStr(S_nan), PyStr(S_0_2)}, vs \in {PyNone, PyStr(S_1_5)}}

\* a job request for dataset 1 or 2, with one dataset stored
JobInit ==
    /\ \E id \in {1, 2} :
          \/ \E p \in ApiParameterInputs, complete \in BOOLEAN :
                reqs = <<[Request("api", "validate") EXCEPT !.parameters = p, !.complete = complete, !.dataset_id = id]>>
          \/ \E f \in FormInputs :
                reqs = <<[Request("form", "validate") EXCEPT !.form = f, !.dataset_id = id]>>
    /\ fs = <<>>
    /\ calls = <<>>
    /\ db = [datasets |-> <<[upload |-> 0, path |-> F_ds_zip, format |-> L_COCO, num_classes |-> 1, num_images |-> 0, class_names |-> PyList(<<N_a>>)]>>,
             jobs |-> <<>>]

\* a job stored before the requests start, in any status; a started job has
\* its run id and start time
StoredJob(status) ==
    [request |-> 0, status |-> status, parameters |-> [f \in Fields |-> Absent],
     dagster_run_id |-> IF status = "pending" THEN PyNone ELSE PyStr(S_run),
     started_at |-> IF status = "pending" THEN PyNone ELSE PyStr(<<"t", "0">>)]

\* the body of a job request the validator accepts
GoodParameters ==
    [model_type |-> PyStr(S_yolo), model_variant |-> PyStr(S_yolov8n), epochs |-> PyInt(10),
     batch_size |-> PyInt(16), learning_rate |-> PyFloat(1), validation_split |-> PyFloat(20)]

\* job 1 is stored, a request creates job 2, and two requests cancel the same
\* job: the stored one, the new one, or one that does not exist
CancelInit ==
    /\ \E status \in JobStatuses, id \in 1..3, route \in {"api", "form"} :
          /\ reqs = <<IF route = "api" THEN [Request("api", "validate") EXCEPT !.parameters = GoodParameters]
                      ELSE [Request("form", "validate") EXCEPT !.form.model_type = PyStr(S_yolo), !.form.model_variant = PyStr(S_yolov8n)],
                      [Request("cancel", "load") EXCEPT !.job = id],
                      [Request("cancel", "load") EXCEPT !.job = id]>>
          /\ db = [datasets |-> <<[upload |-> 0, path |-> F_ds_zip, format |-> L_COCO, num_classes |-> 1, num_images |-> 0, class_names |-> PyList(<<N_a>>)]>>,
                   jobs |-> <<StoredJob(status)>>]
    /\ fs = <<>>
    /\ calls = <<>>

RInit ==
    /\ UploadInit \/ JobInit \/ CancelInit
    /\ parameters = [f \in Fields |-> Absent]
    /\ supported_models = [has |-> TRUE, models |-> SUPPORTED_MODELS]
    /\ vpc = "idle"
    /\ vresult = [out |-> "pending", msg |-> "", args |-> <<>>]

RNext ==
    \/ \E r \in DOMAIN reqs : UploadSave(r)
    \/ DNext
    \/ \E r \in DOMAIN reqs : UploadRecord(r)
    \/ \E r \in DOMAIN reqs : JobValidate(r)
    \/ \E r \in DOMAIN reqs : JobExperiment(r)
    \/ \E r \in DOMAIN reqs : JobCommitPending(r)
    \/ \E r \in DOMAIN reqs : JobSubmit(r)
    \/ \E r \in DOMAIN reqs : JobCommitRunning(r)
    \/ \E r \in DOMAIN reqs : CancelLoad(r)
    \/ \E r \in DOMAIN reqs : CancelPipeline(r)
    \/ \E r \in DOMAIN reqs : CancelCommit(r)

SpecRoutes == RInit /\ [][RNext]_vars

-----------------------------------------------------------------------------
(* The eight rules of the Config Validator, stated on the parameter mapping *)

\* f > 0 on a float; nan > 0 is false
FloatGt0(f) == f.k = "inf" \/ (f.k = "fin" /\ f.h > 0)

\* 0 < f < 1 on a float
FloatInUnit(f) == f.k = "fin" /\ f.h > 0 /\ f.h < 100

RuleHolds(k, p, cfg) ==
    LET mt == Get(p, "model_type", PyNone)
        mv == Get(p, "model_variant", PyNone)
        cat == ConfigGetSupportedModels(cfg)
        e == IntOf(Get(p, "epochs", PyInt(0)))
        b == IntOf(Get(p, "batch_size", PyInt(0)))
        lr == FloatOf(Get(p, "learning_rate", PyInt(0)))
        vs == FloatOf(Get(p, "validation_split", PyInt(0)))
    IN CASE k = 1 -> Truthy(mt)
         [] k = 2 -> mt.t = "str" /\ mt.v \in {S_yolo, S_rf_detr}
         [] k = 3 -> Truthy(mv)
         [] k = 4 -> (mt.t = "str" /\ mt.v \in DOMAIN cat)
                       => (mv.t = "str" /\ \E i \in 1..Len(cat[mt.v]) : cat[mt.v][i] = mv.v)
         [] k = 5 -> e.ok = "ok" /\ e.n > 0
         [] k = 6 -> b.ok = "ok" /\ b.n > 0
         [] k = 7 -> lr.ok = "ok" /\ FloatGt0(lr)
         [] k = 8 -> vs.ok = "ok" /\ FloatInUnit(vs)

ViolatedRules(p, cfg) == {k \in 1..8 : ~RuleHolds(k, p, cfg)}

LowestViolated(p, cfg) ==
    CHOOSE k \in ViolatedRules(p, cfg) : \A j \in ViolatedRules(p, cfg) : k <= j

\* the messages by which a violation of rule k is reported
RuleMessages(k) ==
    CASE k = 1 -> {"Model type is required"}
      [] k = 2 -> {"Unsupported model type"}
      [] k = 3 -> {"Model variant is required"}
      [] k = 4 -> {"Unsupported model variant"}
      [] k = 5 -> {"Epochs must be a positive integer", "Invalid numeric parameter values"}
      [] k = 6 -> {"Batch size must be a positive integer", "Invalid numeric parameter values"}
      [] k = 7 -> {"Learning rate must be a positive number", "Invalid numeric parameter values"}
      [] k = 8 -> {"Validation split must be between 0 and 1", "Invalid numeric parameter values"}

NumericFields == <<"epochs", "batch_size", "learning_rate", "validation_split">>

\* the outcome of coercing numeric field i: "ok" or the exception int()/float() raises
CoercionOf(i, p) ==
    IF i <= 2 THEN IntOf(Get(p, NumericFields[i], PyInt(0))).ok
    ELSE FloatOf(Get(p, NumericFields[i], PyInt(0))).ok

\* numeric field i holds a value int()/float() rejects as not a number
NotCoercible(i, p) == CoercionOf(i, p) \in {"ValueError", "TypeError"}

GenericError == RetError("Invalid numeric parameter values", <<>>)

SplitRangeError == RetError("Validation split must be between 0 and 1", <<>>)

-----------------------------------------------------------------------------
(* Claims C1 .. C5: validate_training_config *)

\* C1: a mapping that violates two or more of the eight rules gets the message
\* of the lowest-numbered violated rule.
C1_FirstViolatedRuleWins ==
    (vpc = "done" /\ Cardinality(ViolatedRules(parameters, supported_models)) >= 2)
        => /\ vresult.out = "error"
           /\ vresult.msg \in RuleMessages(LowestViolated(parameters, supported_models))

\* C2: the validator returns None exactly when all eight rules hold, and an
\* otherwise valid configuration whose validation_split is 0 or 1 gets the
\* split-range error.
C2_NoneIffAllRulesHold ==
    vpc = "done" =>
        /\ (vresult = RetNone) <=> (ViolatedRules(parameters, supported_models) = {})
        /\ ( /\ ViolatedRules(parameters, supported_models) = {8}
             /\ parameters.validation_split \in {PyFloat(0), PyFloat(100), PyInt(0), PyInt(1)} )
              => vresult = SplitRangeError

\* C3 as stated: with model_type and model_variant accepted, any numeric field
\* that cannot be coerced yields the generic error whatever the other numeric
\* fields hold.
C3_GenericErrorWhateverOthers ==
    ( /\ vpc = "done"
      /\ \A k \in 1..4 : RuleHolds(k, parameters, supported_models)
      /\ \E i \in 1..4 : NotCoercible(i, parameters) )
        => vresult = GenericError

\* C3 amended: with model_type and model_variant accepted, if numeric field i
\* cannot be coerced (int()/float() raises ValueError or TypeError) and every
\* numeric field checked before it satisfies its rule, the result is the
\* generic error whatever the later numeric fields hold.
C3_GenericErrorAfterValidPrefix ==
    \A i \in 1..4 :
        ( /\ vpc = "done"
          /\ \A k \in 1..(3 + i) : RuleHolds(k, parameters, supported_models)
          /\ NotCoercible(i, parameters) )
            => vresult = GenericError

\* C3 witness: batch_size is not coercible, epochs is valid and a later field
\* is out of range, and the generic error was returned.
C3_Witness ==
    /\ vpc = "done"
    /\ \A k \in 1..5 : RuleHolds(k, parameters, supported_models)
    /\ NotCoercible(2, parameters)
    /\ parameters.validation_split = PyFloat(100)
    /\ vresult = GenericError

\* C4: the validator ends by returning None or one error string; it never
\* raises.
C4_NeverRaises == vpc = "done" => vresult.out \in {"None", "error"}

\* C5: once rules 1-3 hold, a variant outside the list of a catalogued type is
\* rejected with the unsupported-variant error, a listed variant passes the
\* rule, and for an enumerated type that is no catalog key every non-empty
\* variant passes the rule.
C5_CatalogRule ==
    LET mt == parameters.model_type
        mv == parameters.model_variant
        cat == ConfigGetSupportedModels(supported_models)
        listed == mv.t = "str" /\ \E i \in 1..Len(cat[mt.v]) : cat[mt.v][i] = mv.v
        rejected == vresult = RetError("Unsupported model variant", <<mv, mt>>)
        passed == vresult.msg \notin UNION {RuleMessages(k) : k \in 1..4}
    IN (vpc = "done" /\ \A k \in 1..3 : RuleHolds(k, parameters, supported_models))
        => IF mt.v \in DOMAIN cat THEN (IF listed THEN passed ELSE rejected) ELSE passed

\* C5 witness: 'rf-detr' is enumerated but no key of the catalog, and a variant
\* no list holds was accepted.
C5_Witness ==
    /\ vpc = "done"
    /\ parameters.model_type = PyStr(S_rf_detr)
    /\ S_rf_detr \notin DOMAIN ConfigGetSupportedModels(supported_models)
    /\ parameters.model_variant = PyStr(S_bogus)
    /\ vresult = RetNone

-----------------------------------------------------------------------------
(* Claims C6 .. C10: process_dataset and the parsers *)

LowerChar(c) ==
    IF \E i \in 1..26 : UpperCase[i] = c
    THEN LowerCase[CHOOSE i \in 1..26 : UpperCase[i] = c]
    ELSE c

\* two strings are equal up to letter case
SameIgnoringCase(a, b) ==
    Len(a) = Len(b) /\ \A i \in 1..Len(a) : LowerChar(a[i]) = LowerChar(b[i])

FormatNames == {"COCO", "YOLO", "PASCAL VOC"}

FormatLabel(f) ==
    CASE f = "COCO" -> S_COCO [] f = "YOLO" -> S_YOLO [] f = "PASCAL VOC" -> S_PASCAL_VOC

\* the format a label names, "" when it names none
MatchedFormat(label) ==
    IF \E f \in FormatNames : SameIgnoringCase(label, FormatLabel(f))
    THEN CHOOSE f \in FormatNames : SameIgnoringCase(label, FormatLabel(f))
    ELSE ""

Done(c) == calls[c].pc = "done"

Returned(c) == Done(c) /\ calls[c].result.out = "return"

Extracted(c) == \E i \in 1..Len(calls[c].log) : calls[c].log[i] = "extracted"

ParserRuns(c) == {i \in 1..Len(calls[c].log) : calls[c].log[i] \in FormatNames}

ExtractionErrors == {"FileExistsError", "OSError", "BadZipFile", "ReadError"}

\* C6 as stated: a call with a label that names no format always ends with
\* the unsupported-format error carrying the label, whatever the upload and
\* the working directory.
C6_UnsupportedLabelAlwaysRejected ==
    \A c \in DOMAIN calls :
        (Done(c) /\ MatchedFormat(calls[c].dataset_format) = "")
            => calls[c].result = UnsupportedFormat(calls[c].dataset_format)

\* C6 amended: a call with a label that names no format ends with the
\* unsupported-format error carrying the label whenever the working directory
\* was created and extraction completed, whatever the directory holds, and no
\* parser runs; when creation or extraction fails, that error is raised.
C6_UnsupportedLabelRejectedAfterExtraction ==
    \A c \in DOMAIN calls :
        (Done(c) /\ MatchedFormat(calls[c].dataset_format) = "")
            => /\ ParserRuns(c) = {}
               /\ IF Extracted(c)
                  THEN calls[c].result = UnsupportedFormat(calls[c].dataset_format)
                  ELSE calls[c].result.out = "raise" /\ calls[c].result.exc \in ExtractionErrors

\* C6 witness: label XYZ on a working directory that an earlier upload filled
\* and this one extended; the unsupported-format error names XYZ.
C6_Witness ==
    \E c \in DOMAIN calls :
        /\ Done(c)
        /\ calls[c].dataset_format = L_XYZ
        /\ Extracted(c)
        /\ calls[c].result.exc = "ValueError"
        /\ calls[c].result.arg = L_XYZ
        /\ Len(fs[calls[c].dataset_dir].entries) > Len(GoodCoco \o GoodYolo)

\* C7: a parser runs only after extraction completed, at most one parser runs
\* and it is the one the label names ignoring case; a call whose extraction
\* failed ran no parser; and the outcome of a call whose label names a format
\* and whose extraction completed is an outcome of that format's parser on the
\* working directory.
C7_ExtractThenOneParser ==
    \A c \in DOMAIN calls :
        LET log == calls[c].log
            format == MatchedFormat(calls[c].dataset_format)
        IN /\ Cardinality(ParserRuns(c)) <= 1
           /\ \A i \in ParserRuns(c) : log[i] = format /\ \E j \in 1..(i - 1) : log[j] = "extracted"
           /\ (Done(c) /\ ~Extracted(c)) => (ParserRuns(c) = {} /\ calls[c].result.out = "raise")
           /\ (Done(c) /\ Extracted(c) /\ format # "")
                => /\ Cardinality(ParserRuns(c)) = 1
                   /\ calls[c].result \in RunParser(format, fs[calls[c].dataset_dir].entries)

\* C7 witness: the label 'Pascal VOC' in mixed case, and the Pascal-VOC parser
\* returned a summary after extraction.
C7_Witness ==
    \E c \in DOMAIN calls :
        /\ Returned(c)
        /\ calls[c].dataset_format = L_Pascal_VOC
        /\ calls[c].log = <<"makedirs", "extracted", "PASCAL VOC">>
        /\ calls[c].result.num_images = 2

\* C8: every summary a parser returns has num_classes = len(class_names).
C8_NumClassesIsLength ==
    \A c \in DOMAIN calls :
        Returned(c) =>
            /\ calls[c].result.class_names.t \in {"list", "str"}
            /\ calls[c].result.num_classes = Len(calls[c].result.class_names.v)

\* C8 witness: the COCO parser returned a summary for two categories of the
\* same name.
C8_Witness ==
    \E c \in DOMAIN calls :
        /\ Returned(c)
        /\ calls[c].parser = "COCO"
        /\ calls[c].result.class_names = PyList(<<N_a, N_a>>)
        /\ calls[c].result.num_classes = 2

\* the names a document supplies: category names, manifest names, object names
NamesIn(doc) ==
    CASE doc.kind = "json" /\ doc.valid /\ doc.top.t = "dict" ->
            LET cats == DictGet(doc.top, PyStr(S_categories), PyList(<<>>)) IN
            IF cats.t # "list" THEN {}
            ELSE {DictGet(cats.v[i], PyStr(S_name), PyNone) :
                    i \in {j \in 1..Len(cats.v) : cats.v[j].t = "dict" /\ DictHas(cats.v[j], PyStr(S_name))}}
      [] doc.kind = "yaml" /\ doc.valid /\ doc.top.t = "dict" ->
            LET names == DictGet(doc.top, PyStr(S_names), PyList(<<>>)) IN
            CASE names.t = "list" -> {names.v[i] : i \in 1..Len(names.v)}
              [] names.t = "dict" -> {names.v[i][2] : i \in 1..Len(names.v)}
              [] OTHER -> {}
      [] doc.kind = "xml" /\ doc.valid -> {doc.objects[i] : i \in 1..Len(doc.objects)} \ {Absent}
      [] OTHER -> {}

NonEmptyString(x) == x.t = "str" /\ Len(x.v) > 0

\* every name in the working directory of call c is a non-empty string
WellNamed(c) ==
    LET d == fs[calls[c].dataset_dir].entries IN
    \A i \in 1..Len(d) : \A x \in NamesIn(d[i].doc) : NonEmptyString(x)

\* C9: in every summary a parser returns, every entry of class_names is a
\* non-empty string; stated here for the datasets all of whose own names are
\* non-empty strings.
C9_ClassNamesNonEmptyStrings ==
    \A c \in DOMAIN calls :
        (Returned(c) /\ WellNamed(c)) =>
            /\ calls[c].result.class_names.t \in {"list", "str"}
            /\ calls[c].result.class_names.t = "list" =>
                  \A i \in 1..Len(calls[c].result.class_names.v) :
                      NonEmptyString(calls[c].result.class_names.v[i])

\* the names value of the manifest the YOLO parser reads in the working
\* directory of call c, Absent when there is no such value
ManifestNames(c) ==
    LET d == fs[calls[c].dataset_dir].entries
        doc == FileDoc(d, YoloManifest(d))
    IN IF YoloManifest(d) # <<>> /\ doc.kind = "yaml" /\ doc.valid /\ doc.top.t = "dict"
       THEN DictGet(doc.top, PyStr(S_names), Absent)
       ELSE Absent

\* a non-empty mapping from non-negative integer class ids to names
IsClassIdMapping(names) ==
    /\ names.t = "dict"
    /\ Len(names.v) > 0
    /\ \A i \in 1..Len(names.v) : names.v[i][1].t = "int" /\ names.v[i][1].v >= 0

\* C10: for names given as a list the YOLO parser returns that list and its
\* length; for names given as a mapping from non-negative class ids it
\* returns a list of length max(key) + 1 holding at position k the name of
\* key k and the empty string at every position that is no key.
C10_YoloNamesNormalization ==
    \A c \in DOMAIN calls :
        (Done(c) /\ calls[c].parser = "YOLO") =>
            LET names == ManifestNames(c)
                r == calls[c].result
            IN /\ names.t = "list" =>
                    /\ r.out = "return"
                    /\ r.class_names = names
                    /\ r.num_classes = Len(names.v)
               /\ IsClassIdMapping(names) =>
                    LET keys == {names.v[i][1].v : i \in 1..Len(names.v)}
                        max == CHOOSE m \in keys : \A k \in keys : k <= m
                    IN /\ r.out = "return"
                       /\ r.class_names.t = "list"
                       /\ Len(r.class_names.v) = max + 1
                       /\ r.num_classes = max + 1
                       /\ \A i \in 1..Len(names.v) : r.class_names.v[names.v[i][1].v + 1] = names.v[i][2]
                       /\ \A k \in 0..max : k \notin keys => r.class_names.v[k + 1] = PyStr(<<>>)

\* C10 witness: the manifest maps 2 to b and 0 to a, and the summary holds
\* a, the empty string and b.
C10_Witness ==
    \E c \in DOMAIN calls :
        /\ Returned(c)
        /\ calls[c].parser = "YOLO"
        /\ ManifestNames(c) = PyDict(<<<<PyInt(2), N_b>>, <<PyInt(0), N_a>>>>)
        /\ calls[c].result.class_names = PyList(<<N_a, PyStr(<<>>), N_b>>)
        /\ calls[c].result.num_classes = 3

-----------------------------------------------------------------------------
(* Claims C11 .. C15: the parsers in detail *)

\* the working directory of call c
WorkDir(c) == fs[calls[c].dataset_dir].entries

\* call c ended in the parser of this format
Parsed(c, format) == Done(c) /\ calls[c].parser = format /\ ParserRuns(c) # {}

\* the manifest the YOLO parser locates in the working directory of call c
LocatedManifest(c) == FileDoc(WorkDir(c), YoloManifest(WorkDir(c)))

\* C11: when the located manifest is invalid YAML, or is a mapping without a
\* names field, the YOLO parser fails; it returns no summary for a manifest
\* without names.
C11_ManifestWithoutNamesFails ==
    \A c \in DOMAIN calls :
        (Parsed(c, "YOLO") /\ YoloManifest(WorkDir(c)) # <<>>) =>
            LET doc == LocatedManifest(c)
                invalid == doc.kind = "yaml" /\ ~doc.valid
                nameless == doc.kind = "yaml" /\ doc.valid /\ doc.top.t = "dict"
                              /\ ~DictHas(doc.top, PyStr(S_names))
            IN /\ invalid => (calls[c].result.out = "raise" /\ calls[c].result.exc = "YAMLError")
               /\ nameless => calls[c].result.out = "raise"

\* the names of the entries directly inside <split>/images of directory d
\* that end, in lower case, in .jpg, .jpeg or .png
SplitImageNames(d, split) ==
    {n \in {d[i].path[3] : i \in {j \in 1..Len(d) : Len(d[j].path) >= 3 /\ d[j].path[1] = split /\ d[j].path[2] = S_images}} :
        \/ EndsWith(n, <<".", "j", "p", "g">>)
        \/ EndsWith(n, <<".", "j", "p", "e", "g">>)
        \/ EndsWith(n, <<".", "p", "n", "g">>)}

XmlFiles(d) == SelectSeq(ListDir(d, VocAnnotationsDir(d)), IsDotXml)

\* the object/name texts of the i-th .xml file of d
ObjectNames(d, i) ==
    LET doc == FileDoc(d, Append(VocAnnotationsDir(d), XmlFiles(d)[i]))
    IN {doc.objects[k] : k \in 1..Len(doc.objects)}

\* C13: a Pascal-VOC summary counts all n .xml files of the annotations
\* directory in num_images, and its class_names holds, each once, exactly the
\* object/name texts of the first min(100, n) of them in listing order.
C13_VocSamplingCap ==
    \A c \in DOMAIN calls :
        (Parsed(c, "PASCAL VOC") /\ Returned(c)) =>
            LET d == WorkDir(c)
                n == Len(XmlFiles(d))
                firsts == 1..(IF n < 100 THEN n ELSE 100)
                sampled == UNION {ObjectNames(d, i) : i \in firsts}
                class_names == calls[c].result.class_names
            IN /\ calls[c].result.num_images = n
               /\ class_names.t = "list"
               /\ {class_names.v[i] : i \in 1..Len(class_names.v)} = sampled
               /\ Len(class_names.v) = Cardinality(sampled)

\* C13 witness: 150 annotation files, class b occurs in the 120th only, and
\* the summary has num_images 150 and class_names without b.
C13_Witness ==
    \E c \in DOMAIN calls :
        /\ Parsed(c, "PASCAL VOC") /\ Returned(c)
        /\ Len(XmlFiles(WorkDir(c))) = 150
        /\ ObjectNames(WorkDir(c), 120) = {N_b}
        /\ \A i \in 1..150 : i # 120 => N_b \notin ObjectNames(WorkDir(c), i)
        /\ calls[c].result.num_images = 150
        /\ calls[c].result.class_names = PyList(<<N_a>>)

\* the annotation document the COCO parser reads in directory d
CocoDocument(d) == FileDoc(d, CocoAnnotationFiles(d)[1])

\* the entries of a field of a COCO mapping, none when the field is absent
CocoEntries(top, key) == IF DictHas(top, PyStr(key)) THEN DictGet(top, PyStr(key), PyNone) ELSE PyList(<<>>)

\* a valid COCO annotation mapping: categories, images and annotations are
\* sequences where present, and every category is a mapping with a name
ValidCoco(doc) ==
    /\ doc.kind = "json" /\ doc.valid /\ doc.top.t = "dict"
    /\ \A key \in {S_categories, S_images, S_annotations} : CocoEntries(doc.top, key).t = "list"
    /\ \A i \in 1..Len(CocoEntries(doc.top, S_categories).v) :
          LET cat == CocoEntries(doc.top, S_categories).v[i]
          IN cat.t = "dict" /\ DictHas(cat, PyStr(S_name))

\* C14: for a valid COCO annotation mapping the parser returns a summary with
\* num_classes, num_images and num_annotations the numbers of entries of
\* categories, images and annotations (none when absent) and class_names the
\* name of each category in listed order, duplicates kept.
C14_CocoSummary ==
    \A c \in DOMAIN calls :
        (Parsed(c, "COCO") /\ CocoAnnotationFiles(WorkDir(c)) # <<>> /\ ValidCoco(CocoDocument(WorkDir(c)))) =>
            LET top == CocoDocument(WorkDir(c)).top
                categories == CocoEntries(top, S_categories).v
                r == calls[c].result
            IN /\ r.out = "return"
               /\ r.num_classes = Len(categories)
               /\ r.num_images = Len(CocoEntries(top, S_images).v)
               /\ r.num_annotations = Len(CocoEntries(top, S_annotations).v)
               /\ r.class_names.t = "list"
               /\ Len(r.class_names.v) = Len(categories)
               /\ \A i \in 1..Len(categories) :
                     r.class_names.v[i] = categories[i].v[CHOOSE k \in 1..Len(categories[i].v) : categories[i].v[k][1] = PyStr(S_name)][2]

\* C14 witness: categories b, a, two images and no annotations field; the
\* summary lists b, a in that order with 2 classes, 2 images and 0 annotations.
C14_Witness ==
    \E c \in DOMAIN calls :
        /\ Parsed(c, "COCO") /\ Returned(c)
        /\ ~DictHas(CocoDocument(WorkDir(c)).top, PyStr(S_annotations))
        /\ calls[c].result.class_names = PyList(<<N_b, N_a>>)
        /\ calls[c].result.num_classes = 2
        /\ calls[c].result.num_images = 2
        /\ calls[c].result.num_annotations = 0

\* the kind of an error: its exception type and its message
KindOf(r) == <<r.exc, r.msg>>

ExtractionKinds == {<<e, "">> : e \in ExtractionErrors}

UnsupportedKinds == {<<"ValueError", "Unsupported dataset format">>}

MissingKinds ==
    {<<"ValueError", "No COCO annotation file found in the dataset">>,
     <<"ValueError", "No data.yaml or equivalent file found in YOLO dataset">>,
     <<"ValueError", "No Annotations directory found in Pascal VOC dataset">>}

MalformedKinds ==
    {<<e, "">> : e \in {"JSONDecodeError", "YAMLError", "ParseError", "KeyError", "TypeError", "AttributeError"}}
    \cup {<<"AttributeError", "get">>, <<"TypeError", "len">>}

\* the expected file, manifest or annotation directory of the format is absent from d
MissingInput(format, d) ==
    CASE format = "COCO" -> CocoAnnotationFiles(d) = <<>>
      [] format = "YOLO" -> YoloManifest(d) = <<>>
      [] format = "PASCAL VOC" -> VocAnnotationsDir(d) = <<>>

\* an annotation file that is not XML, or has an object element without a name child
MalformedXml(doc) ==
    doc.kind # "dir" /\ (~(doc.kind = "xml" /\ doc.valid) \/ \E k \in 1..Len(doc.objects) : doc.objects[k] = Absent)

\* the annotation or manifest of the format in d is malformed: invalid JSON, or
\* a category of the categories sequence without name; invalid YAML; invalid
\* XML or an object element without a name child in one of the first `files`
\* annotation files
MalformedInput(format, d, files) ==
    CASE format = "COCO" ->
            LET doc == CocoDocument(d) IN
            /\ doc.kind # "dir"
            /\ \/ ~(doc.kind = "json" /\ doc.valid)
               \/ /\ doc.top.t = "dict"
                  /\ CocoEntries(doc.top, S_categories).t = "list"
                  /\ \E i \in 1..Len(CocoEntries(doc.top, S_categories).v) :
                        LET cat == CocoEntries(doc.top, S_categories).v[i]
                        IN cat.t = "dict" /\ ~DictHas(cat, PyStr(S_name))
      [] format = "YOLO" ->
            LET doc == FileDoc(d, YoloManifest(d)) IN
            doc.kind # "dir" /\ ~(doc.kind \in {"yaml", "json"} /\ doc.valid)
      [] format = "PASCAL VOC" ->
            \E i \in 1..Len(XmlFiles(d)) :
                i <= files /\ MalformedXml(FileDoc(d, Append(VocAnnotationsDir(d), XmlFiles(d)[i])))

\* the kinds by which the failure of call c must be reported, {} when the call
\* has none of the failures; Pascal-VOC annotation files are looked at up to
\* the given number
FailureKinds(c, files) ==
    LET format == MatchedFormat(calls[c].dataset_format) IN
    IF ~Extracted(c) THEN ExtractionKinds
    ELSE IF format = "" THEN UnsupportedKinds
    ELSE IF MissingInput(format, WorkDir(c)) THEN MissingKinds
    ELSE IF MalformedInput(format, WorkDir(c), files) THEN MalformedKinds
    ELSE {}

\* C15 as stated: a failed extraction, an unsupported label, a missing
\* annotation file, manifest or annotation directory and a malformed
\* annotation or manifest each end the call with an error of a kind of its
\* own class, never with a summary; malformed covers every annotation file.
C15_FailuresRaiseDistinctKinds ==
    \A c \in DOMAIN calls :
        (Done(c) /\ FailureKinds(c, Len(XmlFiles(WorkDir(c)))) # {}) =>
            /\ calls[c].result.out = "raise"
            /\ KindOf(calls[c].result) \in FailureKinds(c, Len(XmlFiles(WorkDir(c))))

\* C15 amended: the same, with a malformed Pascal-VOC annotation file covered
\* only among the first 100 .xml files in listing order; the kinds of the four
\* classes are pairwise different, by type or by message.
C15_SampledFailuresRaiseDistinctKinds ==
    /\ \A K1, K2 \in {ExtractionKinds, UnsupportedKinds, MissingKinds, MalformedKinds} :
          K1 # K2 => K1 \cap K2 = {}
    /\ \A c \in DOMAIN calls :
          (Done(c) /\ FailureKinds(c, 100) # {}) =>
              /\ calls[c].result.out = "raise"
              /\ KindOf(calls[c].result) \in FailureKinds(c, 100)

\* C15 witness: under the label coco the second category has no name, and the
\* call ended with KeyError.
C15_Witness ==
    \E c \in DOMAIN calls :
        /\ Parsed(c, "COCO")
        /\ CocoAnnotationFiles(WorkDir(c)) # <<>>
        /\ CocoDocument(WorkDir(c)).kind = "json" /\ CocoDocument(WorkDir(c)).valid
        /\ CocoEntries(CocoDocument(WorkDir(c)).top, S_categories) = PyList(<<PyDict(<<<<PyStr(S_name), N_a>>>>), PyDict(<<>>)>>)
        /\ calls[c].result.out = "raise"
        /\ calls[c].result.exc = "KeyError"

-----------------------------------------------------------------------------
(* Claims C19, C20: the extractor and COCO annotation discovery *)

\* the container handling the suffix of an upload name selects, by precedence
SuffixContainer(name) ==
    CASE EndsWith(name, <<".", "z", "i", "p">>) -> "zip"
      [] ~EndsWith(name, <<".", "z", "i", "p">>)
           /\ (EndsWith(name, <<".", "t", "a", "r", ".", "g", "z">>) \/ EndsWith(name, <<".", "t", "g", "z">>)) -> "targz"
      [] EndsWith(name, <<".", "t", "a", "r">>) -> "tar"
      [] OTHER -> "copy"

\* the content of the upload is what its suffix announces
SuffixFitsContent(name, payload) ==
    CASE SuffixContainer(name) = "zip" -> payload.fmt = "zip"
      [] SuffixContainer(name) = "targz" -> payload.fmt = "targz"
      [] SuffixContainer(name) = "tar" -> payload.fmt = "tar"
      [] OTHER -> TRUE

\* directory entries d hold entry e
Holds(d, e) == \E i \in 1..Len(d) : d[i] = e

\* C19: the suffix of the upload name alone selects the handling, and for
\* every upload name, when the content is what the suffix announces and the
\* file system refuses nothing, the working directory exists afterwards and
\* holds the entries of the archive, or a copy of the file for a non-archive
\* name; content of another container under an archive suffix is refused.
C19_ExtractorBySuffix ==
    \A c \in DOMAIN calls :
        LET name == calls[c].file_name
            payload == fs[name].payload
            dir == SplitExtRoot(name)
        IN (Done(c) /\ calls[c].result.exc # "OSError") =>
              IF SuffixFitsContent(name, payload)
              THEN /\ Extracted(c)
                   /\ dir \in DOMAIN fs /\ fs[dir].kind = "dir"
                   /\ IF SuffixContainer(name) = "copy"
                      THEN Holds(fs[dir].entries, File(<<name>>, DocOf(payload)))
                      ELSE \A i \in 1..Len(payload.entries) : Holds(fs[dir].entries, payload.entries[i])
              ELSE (SuffixContainer(name) = "zip" \/ payload.fmt \notin {"tar", "targz"})
                      => (~Extracted(c) /\ calls[c].result.out = "raise")

\* the names ending in .json directly in directory dir of d, in listing order
JsonNames(d, dir) ==
    LET names == ListDir(d, dir)
        at == {i \in 1..Len(names) : EndsWith(names[i], <<".", "j", "s", "o", "n">>)}
    IN [k \in 1..Cardinality(at) |-> names[CHOOSE i \in at : Cardinality({j \in at : j < i}) = k - 1]]

\* what the COCO parser gives on a directory that holds nothing but the file
\* at this path of d
CocoOnFileAlone(d, path) == parse_coco_dataset(<<File(path, FileDoc(d, path))>>)

\* C20: when the working directory directly holds a .json file, the COCO
\* parser's outcome is that of parsing the first of them in listing order,
\* whatever annotations/ holds; otherwise it is that of parsing the first
\* .json file of annotations/; with no .json file at either place it is the
\* missing-annotation error, and no summary.
C20_CocoAnnotationDiscovery ==
    \A c \in DOMAIN calls :
        Parsed(c, "COCO") =>
            LET d == WorkDir(c)
                top == JsonNames(d, <<>>)
                sub == JsonNames(d, <<S_annotations>>)
            IN IF top # <<>> THEN calls[c].result \in CocoOnFileAlone(d, <<top[1]>>)
               ELSE IF sub # <<>> THEN calls[c].result \in CocoOnFileAlone(d, <<S_annotations, sub[1]>>)
               ELSE /\ calls[c].result.out = "raise"
                    /\ KindOf(calls[c].result) = <<"ValueError", "No COCO annotation file found in the dataset">>

\* C20 witness: inst.json and ds.json at the top and annotations/inst.json
\* hold three different documents, and the summary is that of inst.json, the
\* first listed.
C20_Witness ==
    \E c \in DOMAIN calls :
        /\ Parsed(c, "COCO") /\ Returned(c)
        /\ JsonNames(WorkDir(c), <<>>) = <<F_inst_json, F_ds_json>>
        /\ JsonNames(WorkDir(c), <<S_annotations>>) = <<F_inst_json>>
        /\ FileDoc(WorkDir(c), <<F_inst_json>>) = GoodCoco[1].doc
        /\ FileDoc(WorkDir(c), <<F_ds_json>>) = InvalidDoc("json")
        /\ FileDoc(WorkDir(c), <<S_annotations, F_inst_json>>) \notin {GoodCoco[1].doc, InvalidDoc("json")}
        /\ calls[c].result.class_names = PyList(<<N_a>>)

-----------------------------------------------------------------------------
(* Claim C16: concurrent invocations *)

\* the entries of an archive written one after the other into directory d
RECURSIVE WrittenInto(_, _, _)
WrittenInto(d, members, i) ==
    IF i > Len(members) THEN d ELSE WrittenInto(WriteEntry(d, members[i]), members, i + 1)

\* the outcomes of call c when it runs alone, with no upload but its own in
\* the upload folder
AloneOutcomes(c) ==
    LET name == calls[c].file_name
        label == calls[c].dataset_format
        payload == fs[name].payload
        d == IF SuffixContainer(name) = "copy" THEN <<File(<<name>>, DocOf(payload))>>
             ELSE WrittenInto(<<>>, payload.entries, 1)
    IN {Raised("OSError", "")}
       \cup (IF SplitExtRoot(name) = name THEN {Raised("FileExistsError", "")}
             ELSE IF ~Readable(SuffixContainer(name), payload) THEN {Raised(OpenError(SuffixContainer(name)), "")}
             ELSE IF MatchedFormat(label) = "" THEN {UnsupportedFormat(label)}
             ELSE RunParser(MatchedFormat(label), d))

\* the working directories of calls c1 and c2 are under different names, and
\* neither name is the name of the other's upload
SeparateDirs(c1, c2) ==
    /\ SplitExtRoot(calls[c1].file_name) # SplitExtRoot(calls[c2].file_name)
    /\ SplitExtRoot(calls[c1].file_name) # calls[c2].file_name
    /\ SplitExtRoot(calls[c2].file_name) # calls[c1].file_name

\* C16 as stated: two interleaved calls on uploads with different file names
\* work on different directories, and each ends as it does when run alone.
C16_DifferentNamesDoNotInterfere ==
    \A c1, c2 \in DOMAIN calls :
        (c1 # c2 /\ calls[c1].file_name # calls[c2].file_name) =>
            /\ (calls[c1].dataset_dir # <<>> /\ calls[c2].dataset_dir # <<>>)
                  => calls[c1].dataset_dir # calls[c2].dataset_dir
            /\ Done(c1) => calls[c1].result \in AloneOutcomes(c1)

\* C16 amended: two interleaved calls on uploads whose names differ once the
\* outermost extension is stripped, neither stripped name being the other
\* upload's name, work on different directories, and each ends as it does
\* when run alone.
C16_SeparateDirsDoNotInterfere ==
    \A c1, c2 \in DOMAIN calls :
        (c1 # c2 /\ SeparateDirs(c1, c2)) =>
            /\ (calls[c1].dataset_dir # <<>> /\ calls[c2].dataset_dir # <<>>)
                  => calls[c1].dataset_dir # calls[c2].dataset_dir
            /\ Done(c1) => calls[c1].result \in AloneOutcomes(c1)

\* C16 witness: ds.tar.gz under the label Yolo and xs.zip under the label coco
\* were processed together, both hold an inst.json, and each call returned the
\* summary of its own upload.
C16_Witness ==
    \E c1, c2 \in DOMAIN calls :
        /\ calls[c1].file_name = F_ds_tar_gz /\ calls[c2].file_name = F_xs_zip
        /\ Returned(c1) /\ Returned(c2)
        /\ calls[c1].parser = "YOLO" /\ calls[c2].parser = "COCO"
        /\ calls[c1].result.class_names = PyList(<<N_a, N_b>>)
        /\ calls[c2].result.class_names = PyList(<<N_b, N_a>>)
        /\ calls[c2].result.num_annotations = 0

-----------------------------------------------------------------------------
(* Claims C17, C18: the routes around the core                               *)

\* the job routes
JobRoutes == {"api", "form"}

\* the parameters a job request hands to validate_training_config, when it gets
\* that far: the body's for the API, those built from the form for the page
GivenParameters(q) ==
    IF q.route = "api" THEN [ok |-> q.complete, v |-> q.parameters]
    ELSE [ok |-> FormParameters(q.form).ok, v |-> FormParameters(q.form).v]

\* the verdict of the validator on the parameters of a job request
Verdict(q) == validate_training_config(GivenParameters(q).v, [has |-> TRUE, models |-> SUPPORTED_MODELS])

\* the records stored for a request
DatasetsOf(r) == {i \in DOMAIN db.datasets : db.datasets[i].upload = r}
JobsOf(r) == {i \in DOMAIN db.jobs : db.jobs[i].request = r}

\* process_dataset has ended for the upload r
Processed(r) == reqs[r].route = "upload" /\ reqs[r].call \in DOMAIN calls /\ calls[reqs[r].call].pc = "done"

\* C17: a Dataset record exists for an upload only once process_dataset has
\* returned a summary for it, and then holds that summary; an upload whose
\* process_dataset call raised has no Dataset record; a job request whose
\* parameters validate_training_config rejects, with an error message or an
\* exception, has no TrainingJob record
C17_NoRecordOnFailure ==
    \A r \in DOMAIN reqs :
        /\ reqs[r].route = "upload" =>
              /\ Cardinality(DatasetsOf(r)) <= 1
              /\ \A i \in DatasetsOf(r) :
                    /\ Processed(r)
                    /\ calls[reqs[r].call].result.out = "return"
                    /\ db.datasets[i].num_classes = calls[reqs[r].call].result.num_classes
                    /\ db.datasets[i].num_images = calls[reqs[r].call].result.num_images
                    /\ db.datasets[i].class_names = calls[reqs[r].call].result.class_names
              /\ (Processed(r) /\ calls[reqs[r].call].result.out = "raise") => DatasetsOf(r) = {}
              /\ reqs[r].call = 0 => DatasetsOf(r) = {}
        /\ (reqs[r].route \in JobRoutes /\ Verdict(reqs[r]).out # "None") => JobsOf(r) = {}

\* C17 witness: an upload has ended after process_dataset raised, and nothing is stored
C17_Witness ==
    \E r \in DOMAIN reqs :
        /\ Processed(r) /\ reqs[r].pc = "done"
        /\ calls[reqs[r].call].result.out = "raise"
        /\ db.datasets = <<>>

\* the position of the first call of a collaborator in the trace of a request, 0 if none
FirstCall(q, name) ==
    IF \E i \in DOMAIN q.trace : q.trace[i] = name
    THEN CHOOSE i \in DOMAIN q.trace : q.trace[i] = name /\ \A j \in 1..(i - 1) : q.trace[j] # name
    ELSE 0

\* C18: in a job request, create_mlflow_experiment and submit_dagster_pipeline
\* are called only after validate_training_config was called on the request's
\* parameters and returned None
C18_ValidatorGatesSubmission ==
    \A r \in DOMAIN reqs :
        reqs[r].route \in JobRoutes =>
            \A i \in DOMAIN reqs[r].trace :
                reqs[r].trace[i] \in {"create_mlflow_experiment", "submit_dagster_pipeline"} =>
                    /\ FirstCall(reqs[r], "validate_training_config") \in 1..(i - 1)
                    /\ GivenParameters(reqs[r]).ok
                    /\ reqs[r].parameters = GivenParameters(reqs[r]).v
                    /\ Verdict(reqs[r]) = RetNone

\* C18 witness: a form request with defaulted fields was validated, the
\* experiment was created and the pipeline was submitted
C18_Witness ==
    \E r \in DOMAIN reqs :
        /\ reqs[r].route = "form" /\ reqs[r].form.epochs = PyNone
        /\ reqs[r].trace = <<"validate_training_config", "create_mlflow_experiment", "submit_dagster_pipeline">>

-----------------------------------------------------------------------------
(* Claims C23, C24: the status of a training job                             *)

\* the job request r has committed its record
Committed(r) == reqs[r].route \in JobRoutes /\ reqs[r].job \in DOMAIN db.jobs

\* submit_dagster_pipeline raised in the job request r, after the first commit
SubmissionRaised(r) ==
    /\ Committed(r) /\ reqs[r].pc = "done"
    /\ reqs[r].trace[Len(reqs[r].trace)] = "submit_dagster_pipeline"
    /\ reqs[r].run_id = PyNone

\* C23: a stored job with status 'running' or 'cancelled' has a dagster_run_id
\* and a started_at that are not null; the record of a job request is stored
\* as 'pending' until the request has a run id returned by
\* submit_dagster_pipeline, and leaves 'pending' only with that run id; when
\* the submission has raised, the record is still the one first committed:
\* 'pending', with a null dagster_run_id and started_at
C23_JobStatusLifecycle ==
    /\ \A j \in DOMAIN db.jobs :
          db.jobs[j].status \in {"running", "cancelled"} =>
              /\ db.jobs[j].dagster_run_id # PyNone
              /\ db.jobs[j].started_at # PyNone
    /\ \A r \in DOMAIN reqs :
          Committed(r) =>
              /\ reqs[r].pc \in {"submit", "update"} => db.jobs[reqs[r].job] = PendingJob(r)
              /\ db.jobs[reqs[r].job].status # "pending" =>
                    /\ \E i \in DOMAIN reqs[r].trace : reqs[r].trace[i] = "submit_dagster_pipeline"
                    /\ Truthy(reqs[r].run_id)
                    /\ db.jobs[reqs[r].job].dagster_run_id = reqs[r].run_id
              /\ SubmissionRaised(r) => db.jobs[reqs[r].job] = PendingJob(r)

\* C23 witness: the submission raised after the 'pending' commit, and a later
\* request to cancel that job has been answered
C23_Witness ==
    \E r, c \in DOMAIN reqs :
        /\ SubmissionRaised(r)
        /\ reqs[c].route = "cancel" /\ reqs[c].job = reqs[r].job
        /\ reqs[c].pc = "done" /\ reqs[c].status = 400
        /\ db.jobs[reqs[r].job].status = "pending"

\* the cancel requests
Cancels == {c \in DOMAIN reqs : reqs[c].route = "cancel"}

\* cancel_job has answered the request c with success
Cancelled(c) == reqs[c].pc = "done" /\ reqs[c].status = 200

\* what one step of the cancel request c may do: answer a job that is not
\* running with an error, without a pipeline call or a change; leave the job as
\* it is when the pipeline call raises; change the record only at the end, from
\* 'running' to 'cancelled', after cancel_dagster_pipeline has returned
CancelStepAllowed(c) ==
    LET j == reqs[c].job IN
    /\ (reqs[c].pc = "load" /\ j \in DOMAIN db.jobs /\ db.jobs[j].status # "running") =>
          /\ reqs'[c].pc = "done" /\ reqs'[c].status = 400
          /\ reqs'[c].trace = <<>>
          /\ db' = db
    /\ reqs[c].pc \in {"load", "cancel"} => db' = db
    /\ (reqs[c].pc = "cancel" /\ reqs'[c].pc = "done") => reqs'[c].status = 500
    /\ db' # db =>
          /\ reqs[c].trace = <<"cancel_dagster_pipeline">>
          /\ db.jobs[j].status = "running"
          /\ db' = [db EXCEPT !.jobs[j].status = "cancelled"]
    /\ reqs'[c].status = 200 => db'.jobs[j].status = "cancelled" /\ reqs'[c].trace = <<"cancel_dagster_pipeline">>

\* C24: cancel_job changes a status only from 'running' to 'cancelled' and only
\* after cancel_dagster_pipeline returned; a job in another status is answered
\* with an error, no pipeline call and no change; when the pipeline call raises
\* the status stays as it is; of two requests to cancel the same job at most
\* one succeeds
C24_CancelOnlyRunningOnce ==
    /\ [][\A c \in Cancels : reqs'[c] # reqs[c] => CancelStepAllowed(c)]_vars
    /\ [](\A c1, c2 \in Cancels : (c1 # c2 /\ reqs[c1].job = reqs[c2].job) => ~(Cancelled(c1) /\ Cancelled(c2)))

-----------------------------------------------------------------------------
(* Claim C22: a working directory that already exists                        *)

\* what call c writes into its working directory: the members of its archive,
\* or the upload itself under its name
UploadEntries(c) ==
    IF ContainerOf(calls[c].file_name) = "copy"
    THEN <<File(<<calls[c].file_name>>, DocOf(fs[calls[c].file_name].payload))>>
    ELSE fs[calls[c].file_name].payload.entries

\* the entry a step of call c is about to write into directory n, if any
Writing(c, n) ==
    IF calls[c].dataset_dir # n THEN {}
    ELSE IF calls[c].pc = "extract" /\ ContainerOf(calls[c].file_name) = "copy" THEN {UploadEntries(c)[1]}
    ELSE IF calls[c].pc = "extracting" THEN {calls[c].members[calls[c].xi]}
    ELSE {}

\* a step keeps directory n and every file in it; a file changes only into the
\* entry of the same path that a call writes
KeepsDirectory(n) ==
    /\ n \in DOMAIN fs' /\ fs'[n].kind = "dir"
    /\ \A i \in 1..Len(fs[n].entries) :
          \E k \in 1..Len(fs'[n].entries) :
              /\ fs'[n].entries[k].path = fs[n].entries[i].path
              /\ \/ fs'[n].entries[k] = fs[n].entries[i]
                 \/ \E c \in DOMAIN calls : fs'[n].entries[k] \in Writing(c, n)

\* C22: no step of process_dataset removes or empties a directory or removes a
\* file from it, and a file is replaced only by the upload's entry of the same
\* path; once the upload is extracted the directory holds each of its entries
\* beside what was there; and the parser's outcome is an outcome of the parser
\* on the whole directory
C22_ExistingDirectoryKept ==
    /\ [][\A n \in DOMAIN fs : fs[n].kind = "dir" => KeepsDirectory(n)]_vars
    /\ [](\A c \in DOMAIN calls :
            /\ Extracted(c) =>
                  \A i \in 1..Len(UploadEntries(c)) :
                      /\ Exists(WorkDir(c), UploadEntries(c)[i].path)
                      /\ FileDoc(WorkDir(c), UploadEntries(c)[i].path) = UploadEntries(c)[i].doc
            /\ (Done(c) /\ ParserRuns(c) # {}) => calls[c].result \in RunParser(calls[c].parser, WorkDir(c)))

\* C22 witness: an archive with inst.json and without data.yaml was extracted
\* into a directory that held a data.yaml; inst.json is the archive's, the
\* data.yaml is still there, and the summary returned is not one the upload
\* gives on its own
C22_Witness ==
    \E c \in DOMAIN calls :
        /\ Returned(c)
        /\ \E i \in 1..Len(UploadEntries(c)) :
              /\ UploadEntries(c)[i] = GoodCoco2[1]
              /\ FileDoc(WorkDir(c), <<F_inst_json>>) = GoodCoco2[1].doc
        /\ \A i \in 1..Len(UploadEntries(c)) : UploadEntries(c)[i].path # <<S_data_yaml>>
        /\ \E k \in 1..Len(WorkDir(c)) : WorkDir(c)[k] = GoodYolo[1]
        /\ calls[c].result \notin AloneOutcomes(c)

-----------------------------------------------------------------------------
(* Claim C21: the summary fed back through a generator of the same format    *)

S_nc == <<"n", "c">>

\* the datasets a generator of the format may write from num_classes and
\* class_names alone.  COCO: one category per name, in inst.json at the top or
\* in annotations/.  YOLO: a data.yaml with nc and the names as a list, or as
\* a mapping from 0 .. n-1 when there is a name (the parser raises on an empty
\* mapping).  Pascal VOC: one file with an object per name, or a file per name.
Generated(format, nc, cn) ==
    CASE format = "COCO" ->
            LET doc == JsonDoc(PyDict(<<<<PyStr(S_categories), PyList([i \in 1..Len(cn) |-> PyDict(<<<<PyStr(S_name), cn[i]>>>>)])>>>>))
            IN {<<File(<<F_inst_json>>, doc)>>, <<File(<<S_annotations, F_inst_json>>, doc)>>}
      [] format = "YOLO" ->
            {<<File(<<S_data_yaml>>, YamlDoc(PyDict(<<<<PyStr(S_nc), PyInt(nc)>>, <<PyStr(S_names), PyList(cn)>>>>)))>>}
            \cup (IF cn = <<>> THEN {}
                  ELSE {<<File(<<S_data_yaml>>, YamlDoc(PyDict(<<<<PyStr(S_nc), PyInt(nc)>>,
                            <<PyStr(S_names), PyDict([i \in 1..Len(cn) |-> <<PyInt(i - 1), cn[i]>>])>>>>)))>>})
      [] format = "PASCAL VOC" ->
            {<<File(<<S_Annotations, F_1_xml>>, XmlDoc(cn))>>,
             <<File(<<S_Annotations>>, DirDoc)>> \o [i \in 1..Len(cn) |-> File(<<S_Annotations, XmlName(i)>>, XmlDoc(<<cn[i]>>))]}

\* the class names of two summaries are equal; for Pascal VOC, whose list
\* comes from a set, equal as sets of the same size
SameNames(format, a, b) ==
    IF format = "PASCAL VOC"
    THEN a.t = "list" /\ b.t = "list" /\ Len(a.v) = Len(b.v)
         /\ {a.v[i] : i \in 1..Len(a.v)} = {b.v[i] : i \in 1..Len(b.v)}
    ELSE a = b

\* every generated dataset parses again to a summary with the classes of s;
\* with counts, also to its numbers of images and annotations
RoundTrip(format, s, counts) ==
    \A g \in Generated(format, s.num_classes, s.class_names.v) :
        \A t \in RunParser(format, g) :
            /\ t.out = "return"
            /\ t.num_classes = s.num_classes
            /\ SameNames(format, t.class_names, s.class_names)
            /\ counts => (t.num_images = s.num_images /\ t.num_annotations = s.num_annotations)

\* call c has returned the summary of a dataset whose class names are a list
WellFormed(c) == Returned(c) /\ ParserRuns(c) # {} /\ calls[c].result.class_names.t = "list"

\* C21 as stated: the dataset generated from num_classes and class_names of a
\* returned summary parses again to an equal summary.
C21_RoundTripEqualSummary ==
    \A c \in DOMAIN calls : WellFormed(c) => RoundTrip(calls[c].parser, calls[c].result, TRUE)

\* C21 amended: the dataset generated from num_classes and class_names of a
\* returned summary parses again to a summary with equal num_classes and
\* class_names (for Pascal VOC equal as sets), the empty-string placeholders of
\* a YOLO mapping included.
C21_RoundTripEqualClasses ==
    \A c \in DOMAIN calls : WellFormed(c) => RoundTrip(calls[c].parser, calls[c].result, FALSE)

\* C21 witness: a YOLO manifest with the mapping {0: a, 2: b} and an image was
\* parsed to the names a, '', b
C21_Witness ==
    \E c \in DOMAIN calls :
        /\ WellFormed(c) /\ calls[c].parser = "YOLO"
        /\ LocatedManifest(c).top.t = "dict"
        /\ DictGet(LocatedManifest(c).top, PyStr(S_names), PyNone).t = "dict"
        /\ calls[c].result.class_names = PyList(<<N_a, PyStr(<<>>), N_b>>)

====
